---- MODULE Spec2Model ----
\* Request tracking, structured logging and log sanitisation of the Kolosal
\* server test suite (logging_utils.py, tests/kolosal_tests.py), the fan-out
\* batches of its concurrent tests (tests/engine_tests, tests/retrieval_tests)
\* and the outcome collection and reporting of its run loop (main.py).
\*
\* Python values are modelled with reference semantics: dicts and lists live
\* in a heap (a sequence of objects, the address being the index), and a slot
\* of a dict, a list or a variable holds a cell: a scalar or a reference.
\* Payload strings and dict keys are sequences of one-character strings, so
\* that lower(), len() and slicing are computed rather than assumed.
EXTENDS Integers, Sequences, FiniteSets, TLC

VARIABLES
    heap,       \* the Python heap: Seq of dict / list objects
    data,       \* sanitiser run: the argument of _sanitize_data
    out1,       \* sanitiser run: _sanitize_data(data)
    out2,       \* sanitiser run: _sanitize_data(out1)
    before,     \* sanitiser run: the heap when _sanitize_data(data) was called
    steps,      \* sanitiser run: construction steps spent on data
    phase,      \* sanitiser run: "build", "san1", "san2" ("off" in other runs)
    pc,         \* tracked scope: "start", "body", "exit", "done" ("off" elsewhere)
    mode,       \* tracked scope: "tracked" (make_tracked_request) or "direct"
    json_data,  \* make_tracked_request argument / the direct caller's payload
    params,     \* make_tracked_request argument
    metadata,   \* make_tracked_request / RequestTracker argument
    tracker,    \* the RequestTracker object's fields
    ops,        \* mutator calls made so far by a direct scope's body
    pending,    \* how the body of the with block ended: return or raise
    sent,       \* the JSON body session.request transmitted
    emitCalls,  \* calls of endpoint_logger.log_endpoint_test
    console,    \* entries _log_to_console has written
    fileLog,    \* entries _log_to_file has written (ENDPOINT_TEST_ENTRY lines)
    outcome,    \* what the with statement gives its caller
    fo_test,    \* fan-out: the concurrent test that runs ("off" in other runs)
    fo_n,       \* fan-out: number of inputs of the batch
    fo_pc,      \* fan-out: "start", "gather", "done" ("off" in other runs)
    fo_task,    \* fan-out: per input, the state of its single_request task
    fo_order,   \* fan-out: positions of the inputs in the order they finished
    fo_gather,  \* fan-out: the exception asyncio.gather has been given, if any
    fo_results, \* fan-out: the results list the test reports from
    fo_outcome, \* fan-out: what the concurrent test gives its caller
    suiteLog,   \* fan-out: log_test_start / log_test_end entries
    results,        \* TestSummary.results
    server_status,  \* TestSummary.server_status
    server_info,    \* TestSummary.server_info (its keys)
    call,           \* TestSummary: the last operation called, with its arguments
    ret,            \* TestSummary: how the last operation ended
    test_results,   \* KolosalAgentTester.test_results (its counters)
    script,         \* exit code: the script that runs ("off" in other runs)
    tracked,        \* exit code: pass / fail of the tests tracked so far
    exit_code,      \* exit code: the code the process ended with, if it has
    run,            \* log files: number of the process that runs, from 1
    proc,           \* log files: "idle" or "running" ("off" in other runs)
    endpoint_log,   \* log files: content of logs/endpoint_tests.log
    transcript,     \* log files: content of tests.log
    id_response,    \* id extraction: the argument response_data
    id_field_name,  \* id extraction: the argument id_field_name
    extracted       \* id extraction: how extract_id_from_response ended

sanVars == <<data, out1, out2, before, steps, phase>>
scopeVars == <<pc, mode, json_data, params, metadata, tracker, ops, pending, sent,
               emitCalls, console, fileLog, outcome>>
fanVars == <<fo_test, fo_n, fo_pc, fo_task, fo_order, fo_gather, fo_results,
             fo_outcome, suiteLog>>
sumVars == <<results, server_status, server_info, call, ret>>
agentVars == <<test_results>>
exitVars == <<script, tracked, exit_code>>
logVars == <<run, proc, endpoint_log, transcript>>
idVars == <<id_response, id_field_name, extracted>>
moreVars == <<agentVars, exitVars, logVars, idVars>>
vars == <<heap, sanVars, scopeVars, fanVars, sumVars, moreVars>>

----------------------------------------------------------------------------
\* Bounds of the sanitiser run.

\* number of construction steps (wrap / add) spent on one input value
MaxBuild == 4
\* number of set_response / set_error calls the body of a direct scope makes
MaxBodyOps == 2

----------------------------------------------------------------------------
\* Cells and heap objects.

None == [t |-> "none"]
Num(n) == [t |-> "num", n |-> n]
Str(s) == [t |-> "str", s |-> s]
Ref(a) == [t |-> "ref", a |-> a]
\* a value json.dumps rejects (bytes, a set, an object)
Bytes == [t |-> "bytes"]

EmptyDict == [t |-> "dict", items |-> <<>>]
EmptyList == [t |-> "list", items |-> <<>>]

IsDict(h, c) == c.t = "ref" /\ h[c.a].t = "dict"
IsList(h, c) == c.t = "ref" /\ h[c.a].t = "list"

\* d[key] = value on the dict at address a
DictSet(h, a, key, value) ==
    LET items == h[a].items
        hit == {i \in DOMAIN items : items[i].k = key}
        new == IF hit = {}
               THEN Append(items, [k |-> key, v |-> value])
               ELSE [i \in DOMAIN items |->
                        IF i \in hit THEN [k |-> key, v |-> value] ELSE items[i]]
    IN  [h EXCEPT ![a].items = new]

\* l.append(value) on the list at address a
ListAppend(h, a, value) == [h EXCEPT ![a].items = Append(@, value)]

\* The value a cell denotes, references followed (what == compares, what
\* json.dumps writes).
RECURSIVE Deref(_, _)
Deref(h, c) ==
    IF c.t # "ref" THEN c
    ELSE IF h[c.a].t = "dict"
         THEN [t |-> "dict",
               items |-> [i \in DOMAIN h[c.a].items |->
                            [k |-> h[c.a].items[i].k,
                             v |-> Deref(h, h[c.a].items[i].v)]]]
         ELSE [t |-> "list",
               items |-> [i \in DOMAIN h[c.a].items |-> Deref(h, h[c.a].items[i])]]

----------------------------------------------------------------------------
\* Text.

UpperToLower ==
    ("A" :> "a") @@ ("B" :> "b") @@ ("C" :> "c") @@ ("D" :> "d") @@ ("E" :> "e") @@
    ("F" :> "f") @@ ("G" :> "g") @@ ("H" :> "h") @@ ("I" :> "i") @@ ("J" :> "j") @@
    ("K" :> "k") @@ ("L" :> "l") @@ ("M" :> "m") @@ ("N" :> "n") @@ ("O" :> "o") @@
    ("P" :> "p") @@ ("Q" :> "q") @@ ("R" :> "r") @@ ("S" :> "s") @@ ("T" :> "t") @@
    ("U" :> "u") @@ ("V" :> "v") @@ ("W" :> "w") @@ ("X" :> "x") @@ ("Y" :> "y") @@
    ("Z" :> "z")

\* the bug "key in [...]" without .lower()
LowerNoFold(key) == key

\* str.lower()
Lower(key) ==
    [i \in DOMAIN key |->
        IF key[i] \in DOMAIN UpperToLower THEN UpperToLower[key[i]] ELSE key[i]]

DigitChars == <<"0", "1", "2", "3", "4", "5", "6", "7", "8", "9">>

\* str(n) for n >= 0
RECURSIVE IntToStr(_)
IntToStr(n) ==
    IF n < 10 THEN <<DigitChars[n + 1]>>
    ELSE Append(IntToStr(n \div 10), DigitChars[(n % 10) + 1])

\* ['password', 'api_key', 'token', 'secret', 'auth']
SensitiveKeys ==
    { <<"p", "a", "s", "s", "w", "o", "r", "d">>,
      <<"a", "p", "i", "_", "k", "e", "y">>,
      <<"t", "o", "k", "e", "n">>,
      <<"s", "e", "c", "r", "e", "t">>,
      <<"a", "u", "t", "h">> }

\* "[HIDDEN]"
Hidden == Str(<<"[", "H", "I", "D", "D", "E", "N", "]">>)

\* strings longer than this are truncated
TruncLimit == 1000
\* characters kept from a truncated string
TruncKeep == 100

TruncPrefix ==
    <<".", ".", ".", " ", "[", "t", "r", "u", "n", "c", "a", "t", "e", "d", " ">>
TruncSuffix == <<" ", "c", "h", "a", "r", "s", "]">>

\* the bug of annotating without cutting: value + "... [truncated N chars]"
TruncateNoCut(s) == s \o TruncPrefix \o IntToStr(Len(s)) \o TruncSuffix

\* value[:100] + f"... [truncated {len(value)} chars]"
Truncate(s) ==
    SubSeq(s, 1, IF Len(s) < TruncKeep THEN Len(s) ELSE TruncKeep)
        \o TruncPrefix \o IntToStr(Len(s)) \o TruncSuffix

----------------------------------------------------------------------------
\* EndpointLogger._sanitize_data

\* the bug "sanitized = data": the result aliases the argument
SanitizedAlias(h, src) == [h |-> h, a |-> src]

\* "sanitized = {}" / the list the comprehension builds: a new object
SanitizedNew(h, src) ==
    [h |-> Append(h, IF h[src].t = "dict" THEN EmptyDict ELSE EmptyList),
     a |-> Len(h) + 1]

RECURSIVE _sanitize_data(_, _)
RECURSIVE SanitizeDictItems(_, _, _, _)
RECURSIVE SanitizeListItems(_, _, _, _)

\* the body of "for key, value in data.items()", from item i on; dst is the
\* address of sanitized
SanitizeDictItems(h, dst, items, i) ==
    IF i > Len(items) THEN h
    ELSE LET key == items[i].k
             value == items[i].v
         IN  IF Lower(key) \in SensitiveKeys
             THEN SanitizeDictItems(DictSet(h, dst, key, Hidden), dst, items, i + 1)
             ELSE IF value.t = "ref"
             THEN LET r == _sanitize_data(h, value)
                  IN  SanitizeDictItems(DictSet(r.h, dst, key, r.r), dst, items, i + 1)
             ELSE IF value.t = "str" /\ Len(value.s) > TruncLimit
             THEN SanitizeDictItems(DictSet(h, dst, key, Str(Truncate(value.s))),
                                    dst, items, i + 1)
             ELSE SanitizeDictItems(DictSet(h, dst, key, value), dst, items, i + 1)

\* [self._sanitize_data(item) for item in data], from item i on
SanitizeListItems(h, dst, items, i) ==
    IF i > Len(items) THEN h
    ELSE LET r == _sanitize_data(h, items[i])
         IN  SanitizeListItems(ListAppend(r.h, dst, r.r), dst, items, i + 1)

\* returns [h |-> the heap after the call, r |-> the returned cell]
_sanitize_data(h, c) ==
    IF IsDict(h, c)
    THEN LET n == SanitizedNew(h, c.a)
         IN  [h |-> SanitizeDictItems(n.h, n.a, h[c.a].items, 1), r |-> Ref(n.a)]
    ELSE IF IsList(h, c)
    THEN LET n == SanitizedNew(h, c.a)
         IN  [h |-> SanitizeListItems(n.h, n.a, h[c.a].items, 1), r |-> Ref(n.a)]
    ELSE [h |-> h, r |-> c]

----------------------------------------------------------------------------
\* The sanitiser run: a caller builds a JSON-like value, bottom up, and
\* passes it to _sanitize_data, then passes the result once more.

\* a string of n characters whose characters differ by position
PatStr(n) == [i \in 1..n |-> <<"a", "b", "c">>[(i % 3) + 1]]

ShortStr == Str(PatStr(2))
LimitStr == Str(PatStr(TruncLimit))
LongStr == Str(PatStr(TruncLimit + 1))

KeyName == <<"n", "a", "m", "e">>
KeyApiKey == <<"A", "P", "I", "_", "K", "e", "y">>
KeyToken == <<"t", "o", "k", "e", "n">>
BuildKeys == {KeyName, KeyApiKey, KeyToken}

InitScalars == {None, Num(7), ShortStr, LimitStr, LongStr}
ItemScalars == {Num(7), ShortStr, LongStr}

\* no agent test has run
AgentOff == test_results = [passed |-> 0, failed |-> 0, skipped |-> 0]

\* no entry point is followed to its exit
ExitOff ==
    /\ script = "off"
    /\ tracked = <<>>
    /\ exit_code = [k |-> "none"]

\* the log files are not followed across runs
LogOff ==
    /\ run = 0
    /\ proc = "off"
    /\ endpoint_log = <<>>
    /\ transcript = <<>>

\* extract_id_from_response is not called
IdOff ==
    /\ id_response = [t |-> "none"]
    /\ id_field_name = ""
    /\ extracted = [k |-> "none"]

\* no fan-out batch runs
FanOff ==
    /\ fo_test = "off"
    /\ fo_n = 0
    /\ fo_pc = "off"
    /\ fo_task = <<>>
    /\ fo_order = <<>>
    /\ fo_gather = [k |-> "none"]
    /\ fo_results = <<>>
    /\ fo_outcome = [k |-> "none"]
    /\ suiteLog = <<>>

\* no TestSummary is in use
SumOff ==
    /\ results = <<>>
    /\ server_status = [t |-> "none"]
    /\ server_info = <<>>
    /\ call = [k |-> "none"]
    /\ ret = [k |-> "none"]

\* no tracked scope runs
ScopeOff ==
    /\ pc = "off"
    /\ mode = "off"
    /\ json_data = None
    /\ params = None
    /\ metadata = None
    /\ tracker = None
    /\ ops = 0
    /\ pending = [k |-> "none"]
    /\ sent = [t |-> "absent"]
    /\ emitCalls = 0
    /\ console = <<>>
    /\ fileLog = <<>>
    /\ outcome = [k |-> "none"]

SanInit ==
    /\ AgentOff
    /\ ExitOff
    /\ LogOff
    /\ IdOff
    /\ ScopeOff
    /\ FanOff
    /\ SumOff
    /\ heap = <<>>
    /\ data \in InitScalars
    /\ out1 = None
    /\ out2 = None
    /\ before = <<>>
    /\ steps = 0
    /\ phase = "build"

\* {key: data}
WrapDict(key) ==
    /\ phase = "build"
    /\ steps < MaxBuild
    /\ heap' = Append(heap, [t |-> "dict", items |-> <<[k |-> key, v |-> data]>>])
    /\ data' = Ref(Len(heap) + 1)
    /\ steps' = steps + 1
    /\ UNCHANGED <<moreVars, out1, out2, before, phase>>
    /\ UNCHANGED <<moreVars, scopeVars, fanVars, sumVars>>

\* [data]
WrapList ==
    /\ phase = "build"
    /\ steps < MaxBuild
    /\ heap' = Append(heap, [t |-> "list", items |-> <<data>>])
    /\ data' = Ref(Len(heap) + 1)
    /\ steps' = steps + 1
    /\ UNCHANGED <<moreVars, out1, out2, before, phase>>
    /\ UNCHANGED <<moreVars, scopeVars, fanVars, sumVars>>

\* data[key] = value, key a new key of the dict
AddItem(key, value) ==
    /\ phase = "build"
    /\ steps < MaxBuild
    /\ IsDict(heap, data)
    /\ \A i \in DOMAIN heap[data.a].items : heap[data.a].items[i].k # key
    /\ heap' = DictSet(heap, data.a, key, value)
    /\ steps' = steps + 1
    /\ UNCHANGED <<moreVars, data, out1, out2, before, phase>>
    /\ UNCHANGED <<moreVars, scopeVars, fanVars, sumVars>>

\* data.append(value)
AppendItem(value) ==
    /\ phase = "build"
    /\ steps < MaxBuild
    /\ IsList(heap, data)
    /\ heap' = ListAppend(heap, data.a, value)
    /\ steps' = steps + 1
    /\ UNCHANGED <<moreVars, data, out1, out2, before, phase>>
    /\ UNCHANGED <<moreVars, scopeVars, fanVars, sumVars>>

\* out1 = _sanitize_data(data)
Sanitize ==
    /\ phase = "build"
    /\ LET r == _sanitize_data(heap, data)
       IN  /\ heap' = r.h
           /\ out1' = r.r
    /\ before' = heap
    /\ phase' = "san1"
    /\ UNCHANGED <<moreVars, data, out2, steps>>
    /\ UNCHANGED <<moreVars, scopeVars, fanVars, sumVars>>

\* out2 = _sanitize_data(out1)
SanitizeAgain ==
    /\ phase = "san1"
    /\ LET r == _sanitize_data(heap, out1)
       IN  /\ heap' = r.h
           /\ out2' = r.r
    /\ phase' = "san2"
    /\ UNCHANGED <<moreVars, data, out1, before, steps>>
    /\ UNCHANGED <<moreVars, scopeVars, fanVars, sumVars>>

SanNext ==
    \/ \E key \in BuildKeys : WrapDict(key)
    \/ WrapList
    \/ \E key \in BuildKeys, value \in ItemScalars : AddItem(key, value)
    \/ \E value \in ItemScalars : AppendItem(value)
    \/ Sanitize
    \/ SanitizeAgain

SpecSan == SanInit /\ [][SanNext]_vars

----------------------------------------------------------------------------
\* Claims about the sanitiser, over the values (references followed).

DataIn == Deref(before, data)
DataOut == Deref(heap, out1)

\* the heap objects reachable from a cell
RECURSIVE Reach(_, _)
Reach(h, c) ==
    IF c.t # "ref" THEN {}
    ELSE {c.a} \cup UNION {Reach(h, IF h[c.a].t = "dict" THEN h[c.a].items[i].v
                                                           ELSE h[c.a].items[i]) :
                              i \in DOMAIN h[c.a].items}

\* key, compared without regard to letter case, is one of the sensitive names
NamesSecret(key) ==
    \E s \in SensitiveKeys :
        /\ Len(s) = Len(key)
        /\ \A i \in DOMAIN key :
              \/ key[i] = s[i]
              \/ key[i] \in DOMAIN UpperToLower /\ UpperToLower[key[i]] = s[i]

\* C7: the sanitiser is idempotent: sanitising the result of a sanitisation
\* gives an equal value.
SanitizeIdempotent ==
    phase = "san2" => Deref(heap, out2) = Deref(heap, out1)

\* a second pass has run over a result that the first pass redacted and
\* truncated in a nested value
SanitizeIdempotentWitness ==
    /\ phase = "san2"
    /\ DataOut # DataIn
    /\ \E a \in Reach(heap, out1) :
          /\ heap[a].t = "dict"
          /\ \E i \in DOMAIN heap[a].items :
                /\ heap[a].items[i].v.t = "str"
                /\ Len(heap[a].items[i].v.s) > TruncKeep
                /\ heap[a].items[i].v # LimitStr
    /\ \E a \in Reach(heap, out1) :
          heap[a].t = "dict" /\ \E i \in DOMAIN heap[a].items : heap[a].items[i].v = Hidden

RECURSIVE AllRedacted(_)
AllRedacted(v) ==
    IF v.t = "dict"
    THEN \A i \in DOMAIN v.items :
            /\ NamesSecret(v.items[i].k) => v.items[i].v = Hidden
            /\ AllRedacted(v.items[i].v)
    ELSE IF v.t = "list"
    THEN \A i \in DOMAIN v.items : AllRedacted(v.items[i])
    ELSE TRUE

\* C8: in the sanitiser's output every map key that names a secret (whatever
\* its letter case, at every depth, in maps inside maps and inside sequences)
\* maps to the redaction marker, whatever the original value was.
SensitiveKeysRedacted ==
    phase \in {"san1", "san2"} => AllRedacted(DataOut)

\* the input had a mixed-case secret key, below the top level and inside a
\* sequence, whose value was itself a container
SensitiveKeysRedactedWitness ==
    /\ phase = "san1"
    /\ IsList(before, data)
    /\ \E a \in Reach(before, data) :
          /\ before[a].t = "dict"
          /\ \E i \in DOMAIN before[a].items :
                /\ before[a].items[i].k = KeyApiKey
                /\ before[a].items[i].v.t = "ref"

\* out is "the first 100 characters of s plus a suffix stating len(s)"
IsTruncationOf(out, s) ==
    /\ out.t = "str"
    /\ Len(out.s) > TruncKeep
    /\ SubSeq(out.s, 1, TruncKeep) = SubSeq(s, 1, TruncKeep)
    /\ \E i \in (TruncKeep + 1)..Len(out.s) :
          /\ i + Len(IntToStr(Len(s))) - 1 <= Len(out.s)
          /\ SubSeq(out.s, i, i + Len(IntToStr(Len(s))) - 1) = IntToStr(Len(s))

\* every string of the input is truncated when long and kept when not,
\* values of secret keys aside
RECURSIVE TruncatedIn(_, _)
TruncatedIn(in, out) ==
    IF in.t = "str"
    THEN IF Len(in.s) > TruncLimit THEN IsTruncationOf(out, in.s) ELSE out = in
    ELSE IF in.t = "dict"
    THEN /\ out.t = "dict"
         /\ DOMAIN out.items = DOMAIN in.items
         /\ \A i \in DOMAIN in.items :
               NamesSecret(in.items[i].k) \/ TruncatedIn(in.items[i].v, out.items[i].v)
    ELSE IF in.t = "list"
    THEN /\ out.t = "list"
         /\ DOMAIN out.items = DOMAIN in.items
         /\ \A i \in DOMAIN in.items : TruncatedIn(in.items[i], out.items[i])
    ELSE TRUE

\* C9: every string longer than 1000 characters is replaced by its first 100
\* characters plus a suffix stating the original length, wherever it occurs
\* (top-level value, map value, element of a sequence); every string of 1000
\* characters or fewer passes through unchanged.
LongStringsTruncatedEverywhere ==
    phase \in {"san1", "san2"} => TruncatedIn(DataIn, DataOut)

\* the part of C9 the code does implement: long strings that are map values
RECURSIVE TruncatedInMaps(_, _)
TruncatedInMaps(in, out) ==
    IF in.t = "dict"
    THEN /\ out.t = "dict"
         /\ DOMAIN out.items = DOMAIN in.items
         /\ \A i \in DOMAIN in.items :
               \/ NamesSecret(in.items[i].k)
               \/ IF in.items[i].v.t = "str"
                  THEN TruncatedIn(in.items[i].v, out.items[i].v)
                  ELSE TruncatedInMaps(in.items[i].v, out.items[i].v)
    ELSE IF in.t = "list"
    THEN /\ out.t = "list"
         /\ DOMAIN out.items = DOMAIN in.items
         /\ \A i \in DOMAIN in.items : TruncatedInMaps(in.items[i], out.items[i])
    ELSE out = in

LongStringsTruncatedInMaps ==
    phase \in {"san1", "san2"} => TruncatedInMaps(DataIn, DataOut)

\* C10 (sanitiser part): _sanitize_data changes no object that existed when
\* it was called, and a container it returns shares no object with its
\* argument.
SanitizeLeavesArgument ==
    phase \in {"san1", "san2"} =>
        /\ Len(heap) >= Len(before)
        /\ SubSeq(heap, 1, Len(before)) = before
        /\ Deref(heap, data) = DataIn
        /\ Reach(heap, out1) \cap Reach(before, data) = {}


----------------------------------------------------------------------------
\* Values around a tracked request.

\* a key that is not in a dict / an argument that was not given
Absent == [t |-> "absent"]
\* a Python str used as a message
Text(m) == [t |-> "text", m |-> m]
\* an exception object; str(e) is msg.  kind is "RequestException"
\* (requests.exceptions.*), "Exception" (any other Exception, an
\* AssertionError included), "KeyboardInterrupt" (a BaseException that is no
\* Exception) or "TypeError" (raised by json.dumps); where a test function
\* raises it, "AssertionError" is a kind of its own
Exc(kind, msg) == [t |-> "exc", kind |-> kind, msg |-> msg]

\* the ways a block of code ends
Unset == [k |-> "none"]
Return(v) == [k |-> "return", v |-> v]
Raise(e) == [k |-> "raise", e |-> e]

\* bool(x) of a cell
PyTruthy(h, c) ==
    IF c.t = "none" THEN FALSE
    ELSE IF c.t = "ref" THEN h[c.a].items # <<>>
    ELSE IF c.t = "str" THEN c.s # <<>>
    ELSE IF c.t = "num" THEN c.n # 0
    ELSE TRUE

\* json.dumps accepts the value (v a value with references followed)
RECURSIVE Serializable(_)
Serializable(v) ==
    IF v.t = "bytes" THEN FALSE
    ELSE IF v.t = "dict" THEN \A i \in DOMAIN v.items : Serializable(v.items[i].v)
    ELSE IF v.t = "list" THEN \A i \in DOMAIN v.items : Serializable(v.items[i])
    ELSE TRUE

RECURSIVE JsonLen(_)
RECURSIVE JsonItemsLen(_, _, _)
\* the characters of items i.. of a dict or list, separators ", " and ": "
JsonItemsLen(items, isDict, i) ==
    IF i > Len(items) THEN 0
    ELSE (IF isDict THEN Len(items[i].k) + 4 + JsonLen(items[i].v)
                    ELSE JsonLen(items[i]))
         + (IF i < Len(items) THEN 2 ELSE 0)
         + JsonItemsLen(items, isDict, i + 1)

\* len(json.dumps(v).encode('utf-8')) for a serializable ASCII value
JsonLen(v) ==
    IF v.t = "none" THEN 4
    ELSE IF v.t = "num" THEN Len(IntToStr(v.n))
    ELSE IF v.t = "str" THEN Len(v.s) + 2
    ELSE 2 + JsonItemsLen(v.items, v.t = "dict", 1)

KeyId == <<"i", "d">>
KeyError == <<"e", "r", "r", "o", "r">>
KeyModel == <<"m", "o", "d", "e", "l">>
KeyInput == <<"i", "n", "p", "u", "t">>
KeyQuery == <<"q">>
KeyUrlParams == <<"_", "u", "r", "l", "_", "p", "a", "r", "a", "m", "s">>
KeyRawContent == <<"r", "a", "w", "_", "c", "o", "n", "t", "e", "n", "t">>
KeyContentType == <<"C", "o", "n", "t", "e", "n", "t", "-", "T", "y", "p", "e">>

\* response.text[:500]
RawLimit == 500

JsonBody(items) == [fmt |-> "json", items |-> items]
TextBody(text) == [fmt |-> "text", text |-> text]

Headers ==
    [t |-> "dict", items |-> <<[k |-> KeyContentType, v |-> ShortStr]>>]

\* kind "requests": a requests.Response; kind "mock": a plain object with
\* status_code, headers, content and json() (utils/demo_enhanced_logging.py)
Response(kind, status, body) ==
    [t |-> "resp", kind |-> kind, status_code |-> status, headers |-> Headers,
     body |-> body]

BodyValue(body) == [t |-> "dict", items |-> body.items]

\* len(response.content)
ContentLen(body) ==
    IF body.fmt = "text" THEN Len(body.text) ELSE JsonLen(BodyValue(body))

JsonOK ==
    JsonBody(<<[k |-> KeyId, v |-> ShortStr], [k |-> KeyApiKey, v |-> ShortStr],
               [k |-> KeyName, v |-> LongStr]>>)
JsonErr == JsonBody(<<[k |-> KeyError, v |-> ShortStr], [k |-> KeyToken, v |-> Num(7)]>>)

ServerResponses ==
    { Response("requests", 200, JsonOK),
      Response("requests", 200, TextBody(PatStr(RawLimit + 1))),
      Response("requests", 204, TextBody(<<>>)),
      Response("requests", 304, TextBody(<<>>)),
      Response("requests", 400, JsonErr),
      Response("requests", 404, JsonErr),
      Response("requests", 500, TextBody(PatStr(3))) }

MockResponses == { Response("mock", 200, JsonOK), Response("mock", 404, JsonErr) }

Messages == {"", "refused"}
BodyExceptions ==
    {Exc(kind, msg) : kind \in {"RequestException", "Exception", "KeyboardInterrupt"},
                      msg \in Messages}

\* The caller's objects at the start of a run.
PayloadHeap ==
    << [t |-> "dict", items |-> <<[k |-> KeyModel, v |-> ShortStr],
                                  [k |-> KeyApiKey, v |-> ShortStr],
                                  [k |-> KeyInput, v |-> Ref(2)]>>],
       [t |-> "list", items |-> <<LongStr, Ref(3)>>],
       [t |-> "dict", items |-> <<[k |-> KeyToken, v |-> Num(7)],
                                  [k |-> KeyName, v |-> LongStr]>>],
       EmptyDict,
       [t |-> "dict", items |-> <<[k |-> KeyName, v |-> Bytes]>>],
       [t |-> "dict", items |-> <<[k |-> KeyQuery, v |-> ShortStr]>>],
       [t |-> "dict", items |-> <<[k |-> KeyQuery, v |-> Bytes]>>],
       [t |-> "dict", items |-> <<[k |-> KeyName, v |-> ShortStr],
                                  [k |-> KeyToken, v |-> ShortStr]>>],
       [t |-> "dict", items |-> <<[k |-> KeyName, v |-> Bytes]>>] >>

PayloadChoices == {None, Ref(1), Ref(3), Ref(4), Ref(5)}
ParamsChoices == {None, Ref(6), Ref(7)}
MetadataChoices == {None, Ref(8), Ref(9)}

----------------------------------------------------------------------------
\* EndpointLogger.log_endpoint_test and its sinks.  The timestamp, test name,
\* endpoint, method and performance sections of an entry are left out: they
\* are copied or measured, and nothing decides on them.

\* the bug of dropping the status test: success = error is None
SuccessIgnoringStatus(response, error) == error = None

\* error is None and (response is None or response.status_code < 400)
SuccessOf(response, error) ==
    error = None /\ (response = None \/ response.status_code < 400)

\* "if error:" for None or a str
ErrorTruthy(error) == error # None /\ error.m # ""

\* the summary line _log_to_console writes
ConsoleLine(h, entry) ==
    [success |-> entry.success,
     request_size |-> IF entry.request = Absent THEN Absent
                      ELSE Num(entry.request.size_bytes),
     response_code |-> IF entry.response = Absent THEN Absent
                       ELSE Num(entry.response.status_code),
     error |-> entry.error]

\* json.dumps(log_entry): the entry with every reference followed
FileEntry(h, entry) ==
    [success |-> entry.success,
     request |-> IF entry.request = Absent THEN Absent
                 ELSE [payload |-> Deref(h, entry.request.payload),
                       size_bytes |-> entry.request.size_bytes],
     response |-> IF entry.response = Absent THEN Absent
                  ELSE [status_code |-> entry.response.status_code,
                        headers |-> entry.response.headers,
                        size_bytes |-> entry.response.size_bytes,
                        data |-> Deref(h, entry.response.data)],
     error |-> entry.error,
     metadata |-> Deref(h, entry.metadata)]

\* returns [h |-> the heap after the call, raised |-> None or the exception
\* the call raises, console |-> the lines written to the console, file |->
\* the entries written to the file]
log_endpoint_test(h, request_data, response, response_data, error, meta) ==
    LET req == IF request_data # None
               THEN _sanitize_data(h, request_data)
               ELSE [h |-> h, r |-> None]
        dumpable == request_data = None \/ Serializable(Deref(h, request_data))
        rsp == IF response # None /\ response_data # None
               THEN _sanitize_data(req.h, response_data)
               ELSE [h |-> req.h, r |-> None]
        entry ==
            [success |-> SuccessOf(response, error),
             request |-> IF request_data # None
                         THEN [payload |-> req.r,
                               size_bytes |-> JsonLen(Deref(h, request_data))]
                         ELSE Absent,
             response |-> IF response # None
                          THEN [status_code |-> response.status_code,
                                headers |-> response.headers,
                                size_bytes |-> ContentLen(response.body),
                                data |-> IF response_data # None THEN rsp.r ELSE Absent]
                          ELSE Absent,
             error |-> IF ErrorTruthy(error) THEN error ELSE Absent,
             metadata |-> IF PyTruthy(h, meta) THEN meta ELSE Absent]
        typeError == Exc("TypeError", "Object of type bytes is not JSON serializable")
    IN  IF ~dumpable
        THEN [h |-> req.h, raised |-> typeError, console |-> <<>>, file |-> <<>>]
        ELSE IF ~Serializable(Deref(rsp.h, entry.metadata))
        THEN [h |-> rsp.h, raised |-> typeError,
              console |-> <<ConsoleLine(rsp.h, entry)>>, file |-> <<>>]
        ELSE [h |-> rsp.h, raised |-> None,
              console |-> <<ConsoleLine(rsp.h, entry)>>,
              file |-> <<FileEntry(rsp.h, entry)>>]

----------------------------------------------------------------------------
\* RequestTracker

\* RequestTracker.__init__
NewTracker(request_data, meta) ==
    [request_data |-> request_data, metadata |-> meta, response |-> None,
     error |-> None]

set_response(tr, response) == [tr EXCEPT !.response = response]

set_error(tr, msg) == [tr EXCEPT !.error = Text(msg)]

\* "if self.response:": a requests.Response is true when its status is no
\* 4xx or 5xx (Response.__bool__ is Response.ok); a plain object is true
ResponseTruthy(response) ==
    /\ response # None
    /\ \/ response.kind = "mock"
       \/ ~(400 <= response.status_code /\ response.status_code < 600)

\* the bug of logging only when the body did not raise
ExitLogsUnlessRaised(pend) == pend.k # "raise"

\* __exit__ calls log_endpoint_test on every path
ExitLogs(pend) == TRUE

\* __exit__ returns None: an exception of the body is not suppressed
ExitSuppresses == FALSE

\* "self.error = str(exc_val)" when the body raised
ExitError(tr, pend) == IF pend.k = "raise" THEN Text(pend.e.msg) ELSE tr.error

\* self.response.json(), else {"raw_content": self.response.text[:500]};
\* returns [h |-> heap, r |-> response_data]
ExitResponseData(h, response) ==
    IF ~ResponseTruthy(response) THEN [h |-> h, r |-> None]
    ELSE IF response.body.fmt = "json"
    THEN [h |-> Append(h, BodyValue(response.body)), r |-> Ref(Len(h) + 1)]
    ELSE LET text == response.body.text
             raw == SubSeq(text, 1, IF Len(text) < RawLimit THEN Len(text) ELSE RawLimit)
         IN  [h |-> Append(h, [t |-> "dict",
                               items |-> <<[k |-> KeyRawContent, v |-> Str(raw)]>>]),
              r |-> Ref(Len(h) + 1)]

----------------------------------------------------------------------------
\* One tracked scope: KolosalTestBase.make_tracked_request ("tracked"), or a
\* caller's own "with RequestTracker(...) as tracker:" block ("direct").

SanOff ==
    /\ data = None
    /\ out1 = None
    /\ out2 = None
    /\ before = <<>>
    /\ steps = 0
    /\ phase = "off"

Init ==
    /\ AgentOff
    /\ ExitOff
    /\ LogOff
    /\ IdOff
    /\ SanOff
    /\ FanOff
    /\ SumOff
    /\ heap = PayloadHeap
    /\ pc = "start"
    /\ mode \in {"tracked", "direct"}
    /\ json_data \in PayloadChoices
    /\ params \in IF mode = "tracked" THEN ParamsChoices ELSE {None}
    /\ metadata \in MetadataChoices
    /\ tracker = None
    /\ ops = 0
    /\ pending = Unset
    /\ sent = Absent
    /\ emitCalls = 0
    /\ console = <<>>
    /\ fileLog = <<>>
    /\ outcome = Unset

\* d.update(src) for the dict at address a, from item i of src on
RECURSIVE DictUpdate(_, _, _, _)
DictUpdate(h, a, items, i) ==
    IF i > Len(items) THEN h
    ELSE DictUpdate(DictSet(h, a, items[i].k, items[i].v), a, items, i + 1)

\* make_tracked_request up to __enter__: request_data is a new dict holding
\* the items of json_data and the params
EnterTracked ==
    /\ pc = "start"
    /\ mode = "tracked"
    /\ LET a == Len(heap) + 1
           h0 == Append(heap, EmptyDict)
           h1 == IF PyTruthy(heap, json_data)
                 THEN DictUpdate(h0, a, heap[json_data.a].items, 1)
                 ELSE h0
           h2 == IF PyTruthy(heap, params)
                 THEN DictSet(h1, a, KeyUrlParams, params)
                 ELSE h1
       IN  /\ heap' = h2
           /\ tracker' = NewTracker(Ref(a), metadata)
    /\ pc' = "body"
    /\ UNCHANGED <<moreVars, sanVars, fanVars, sumVars, mode, json_data, params, metadata, ops, pending, sent,
                   emitCalls, console, fileLog, outcome>>

\* with RequestTracker(..., request_data=json_data, metadata=metadata)
EnterDirect ==
    /\ pc = "start"
    /\ mode = "direct"
    /\ tracker' = NewTracker(json_data, metadata)
    /\ pc' = "body"
    /\ UNCHANGED <<moreVars, heap, sanVars, fanVars, sumVars, mode, json_data, params, metadata, ops, pending,
                   sent, emitCalls, console, fileLog, outcome>>

\* session.request(json=json_data, ...) answers: set_response, return response
TrackedResponse(response) ==
    /\ pc = "body"
    /\ mode = "tracked"
    /\ Serializable(Deref(heap, json_data))
    /\ sent' = Deref(heap, json_data)
    /\ tracker' = set_response(tracker, response)
    /\ pending' = Return(response)
    /\ pc' = "exit"
    /\ UNCHANGED <<moreVars, heap, sanVars, fanVars, sumVars, mode, json_data, params, metadata, ops, emitCalls,
                   console, fileLog, outcome>>

\* session.request raises e: the except clauses call set_error and re-raise;
\* a KeyboardInterrupt passes both clauses.  The body may have been
\* delivered before the failure.
TrackedFailure(e, delivered) ==
    /\ pc = "body"
    /\ mode = "tracked"
    /\ delivered => Serializable(Deref(heap, json_data))
    /\ sent' = IF delivered THEN Deref(heap, json_data) ELSE sent
    /\ tracker' = IF e.kind = "RequestException"
                  THEN set_error(tracker, "Request failed: " \o e.msg)
                  ELSE IF e.kind = "Exception"
                  THEN set_error(tracker, "Unexpected error: " \o e.msg)
                  ELSE tracker
    /\ pending' = Raise(e)
    /\ pc' = "exit"
    /\ UNCHANGED <<moreVars, heap, sanVars, fanVars, sumVars, mode, json_data, params, metadata, ops, emitCalls,
                   console, fileLog, outcome>>

\* tracker.set_response(response) in a direct scope
DirectSetResponse(response) ==
    /\ pc = "body"
    /\ mode = "direct"
    /\ ops < MaxBodyOps
    /\ tracker' = set_response(tracker, response)
    /\ ops' = ops + 1
    /\ UNCHANGED <<moreVars, heap, sanVars, fanVars, sumVars, pc, mode, json_data, params, metadata, pending,
                   sent, emitCalls, console, fileLog, outcome>>

\* tracker.set_error(msg) in a direct scope
DirectSetError(msg) ==
    /\ pc = "body"
    /\ mode = "direct"
    /\ ops < MaxBodyOps
    /\ tracker' = set_error(tracker, msg)
    /\ ops' = ops + 1
    /\ UNCHANGED <<moreVars, heap, sanVars, fanVars, sumVars, pc, mode, json_data, params, metadata, pending,
                   sent, emitCalls, console, fileLog, outcome>>

\* the body of a direct scope runs to its end
DirectReturn ==
    /\ pc = "body"
    /\ mode = "direct"
    /\ pending' = Return(None)
    /\ pc' = "exit"
    /\ UNCHANGED <<moreVars, heap, sanVars, fanVars, sumVars, mode, json_data, params, metadata, tracker, ops,
                   sent, emitCalls, console, fileLog, outcome>>

\* the body of a direct scope raises e
DirectRaise(e) ==
    /\ pc = "body"
    /\ mode = "direct"
    /\ pending' = Raise(e)
    /\ pc' = "exit"
    /\ UNCHANGED <<moreVars, heap, sanVars, fanVars, sumVars, mode, json_data, params, metadata, tracker, ops,
                   sent, emitCalls, console, fileLog, outcome>>

\* RequestTracker.__exit__, the call of log_endpoint_test included, and what
\* the with statement then gives its caller
Exit ==
    /\ pc = "exit"
    /\ LET error == ExitError(tracker, pending)
           rd == ExitResponseData(heap, tracker.response)
           logged == IF ExitLogs(pending)
                     THEN log_endpoint_test(rd.h, tracker.request_data,
                                            tracker.response, rd.r, error,
                                            tracker.metadata)
                     ELSE [h |-> rd.h, raised |-> None, console |-> <<>>,
                           file |-> <<>>]
       IN  /\ tracker' = [tracker EXCEPT !.error = error]
           /\ heap' = logged.h
           /\ emitCalls' = emitCalls + (IF ExitLogs(pending) THEN 1 ELSE 0)
           /\ console' = console \o logged.console
           /\ fileLog' = fileLog \o logged.file
           /\ outcome' = IF logged.raised # None THEN Raise(logged.raised)
                         ELSE IF pending.k = "raise" /\ ExitSuppresses
                         THEN Return(None)
                         ELSE pending
    /\ pc' = "done"
    /\ UNCHANGED <<moreVars, sanVars, fanVars, sumVars, mode, json_data, params, metadata, ops, pending, sent>>

Next ==
    \/ EnterTracked
    \/ EnterDirect
    \/ \E response \in ServerResponses : TrackedResponse(response)
    \/ \E e \in BodyExceptions, delivered \in BOOLEAN : TrackedFailure(e, delivered)
    \/ \E response \in ServerResponses \cup MockResponses : DirectSetResponse(response)
    \/ \E msg \in Messages : DirectSetError(msg)
    \/ DirectReturn
    \/ \E e \in BodyExceptions : DirectRaise(e)
    \/ Exit

Spec == Init /\ [][Next]_vars

----------------------------------------------------------------------------
\* Claims about a tracked scope.

\* the entries a scope has emitted, console and file
Emitted == {console[i] : i \in DOMAIN console} \cup {fileLog[i] : i \in DOMAIN fileLog}

\* json.dumps accepts everything log_endpoint_test is given
LogInputsSerializable ==
    /\ Serializable(Deref(heap, tracker.request_data))
    /\ Serializable(Deref(heap, tracker.metadata))

\* C1: however a RequestTracker scope is left (normal end, early return, a
\* response with an error status, an exception), log_endpoint_test is
\* called exactly once for it, at the exit: never zero times, never twice.
EmitsExactlyOnce ==
    /\ pc = "done" => emitCalls = 1
    /\ pc \in {"start", "body", "exit"} => emitCalls = 0

\* a scope left by a transport exception of make_tracked_request, after
\* set_error, has made its one call
EmitsExactlyOnceWitness ==
    /\ pc = "done"
    /\ mode = "tracked"
    /\ pending.k = "raise"
    /\ pending.e.kind = "RequestException"
    /\ tracker.response = None
    /\ emitCalls = 1

\* C2: every emitted record has success = (error absent) and (response
\* absent or response status < 400).
SuccessMatchesRecord ==
    \A i \in DOMAIN fileLog :
        fileLog[i].success =
            (/\ fileLog[i].error = Absent
             /\ \/ fileLog[i].response = Absent
                \/ fileLog[i].response.status_code < 400)

\* C3: an exception raised by the body of a scope reaches the caller
\* unchanged, after the record of the scope has been emitted.
ExceptionReachesCaller ==
    (pc = "done" /\ pending.k = "raise") =>
        /\ outcome = pending
        /\ Len(fileLog) = 1

\* C4 as stated: every response with a status outside 200..299 gives a
\* record with success = false.
NonSuccessStatusFails ==
    (pc = "done" /\ tracker.response # None
        /\ ~(200 <= tracker.response.status_code /\ tracker.response.status_code <= 299)) =>
        \A i \in DOMAIN fileLog : fileLog[i].success = FALSE

\* C4 as amended: every response with a status of 400 or above gives a
\* record with success = false, and the status raises nothing: a body that
\* returned still returns to the caller whenever the record can be written.
ErrorStatusFails ==
    (pc = "done" /\ tracker.response # None /\ tracker.response.status_code >= 400) =>
        /\ \A e \in Emitted : e.success = FALSE
        /\ (pending.k = "return" /\ LogInputsSerializable) =>
              (outcome = pending /\ Len(fileLog) = 1)

\* make_tracked_request got a 404, logged it as a failure and returned it
ErrorStatusFailsWitness ==
    /\ pc = "done"
    /\ mode = "tracked"
    /\ tracker.response # None
    /\ tracker.response.status_code = 404
    /\ Len(fileLog) = 1
    /\ fileLog[1].success = FALSE
    /\ outcome = Return(tracker.response)

\* C5: a failure while building or writing the record never changes what
\* the tracked call gives its caller: the response it received, or the
\* exception the transport raised.
LoggingKeepsOutcome ==
    pc = "done" => outcome = pending

\* C6: a response whose body parses as JSON is logged, whatever its status,
\* with status code, headers, body size and the parsed, sanitised body.
ParsedBodyLogged ==
    (pc = "done" /\ tracker.response # None /\ tracker.response.body.fmt = "json") =>
        \A i \in DOMAIN fileLog :
            /\ fileLog[i].response # Absent
            /\ fileLog[i].response.status_code = tracker.response.status_code
            /\ fileLog[i].response.headers = tracker.response.headers
            /\ fileLog[i].response.size_bytes = ContentLen(tracker.response.body)
            /\ fileLog[i].response.data.t = "dict"
            /\ [j \in DOMAIN fileLog[i].response.data.items |->
                    fileLog[i].response.data.items[j].k]
                 = [j \in DOMAIN tracker.response.body.items |->
                    tracker.response.body.items[j].k]
            /\ AllRedacted(fileLog[i].response.data)

\* C10: sanitisation never alters what is transmitted: no object of the
\* caller is changed by a tracked request, and the JSON body sent is the
\* caller's payload as it was passed, secrets and long strings intact.
PayloadNeverAltered ==
    /\ Len(heap) >= Len(PayloadHeap)
    /\ SubSeq(heap, 1, Len(PayloadHeap)) = PayloadHeap
    /\ sent # Absent => sent = Deref(PayloadHeap, json_data)
    /\ pc = "done" => Deref(heap, json_data) = Deref(PayloadHeap, json_data)

\* a nested payload with a secret and a long string was sent as passed,
\* while the logged copy of it differs
PayloadNeverAlteredWitness ==
    /\ pc = "done"
    /\ mode = "tracked"
    /\ json_data = Ref(1)
    /\ sent = Deref(PayloadHeap, Ref(1))
    /\ Len(fileLog) = 1
    /\ fileLog[1].request.payload # sent
    /\ AllRedacted(fileLog[1].request.payload)

\* C11: in no field of a record written to the file (request payload,
\* response data, metadata) does a key naming a secret carry anything but the
\* redaction marker.
FileRecordSanitized ==
    \A i \in DOMAIN fileLog :
        /\ fileLog[i].request # Absent => AllRedacted(fileLog[i].request.payload)
        /\ fileLog[i].response # Absent => AllRedacted(fileLog[i].response.data)
        /\ AllRedacted(fileLog[i].metadata)

\* what does hold of a written record: payload and response data are redacted
FileRecordPayloadSanitized ==
    \A i \in DOMAIN fileLog :
        /\ fileLog[i].request # Absent => AllRedacted(fileLog[i].request.payload)
        /\ fileLog[i].response # Absent => AllRedacted(fileLog[i].response.data)

----------------------------------------------------------------------------
\* One fan-out batch: the concurrent tests of completion_test.py,
\* embedding_test.py, document_retrieval_test.py and parse_pdf_test.py.  Each
\* builds one single_request coroutine per input, awaits asyncio.gather over
\* them inside asyncio.run, sorts the gathered list and reports from it.

\* the largest batch explored
MaxRequests == 3

\* the Python booleans
PyBool(b) == [t |-> "bool", b |-> b]

FanOutTests == {"concurrent_completion", "concurrent_embedding",
                "concurrent_retrieve_documents", "concurrent_parse_pdf"}

\* the tests that call log_test_start / log_test_end
LogsSuite(test) == test # "concurrent_parse_pdf"

\* the tests whose body is inside try / except Exception
CatchesFailure(test) == test # "concurrent_parse_pdf"

\* enumerate() counts from 0 and single_request is given i + 1; pos is the
\* position of the input counted from 1
RequestId(pos) == (pos - 1) + 1

\* what a single_request that returns can carry in the field success is
\* counted from (content, embedding, documents): something or nothing
Outputs == {"full", "empty"}

\* the tuple single_request returns
ResultTuple(pos, output) == [id |-> RequestId(pos), output |-> output]

\* how a single_request can raise: the client's error (openai) or the
\* ClientResponseError raised on a status other than 200 (aiohttp)
RequestFailures(test) ==
    IF test \in {"concurrent_completion", "concurrent_embedding"}
    THEN {Exc("APIError", "refused")}
    ELSE {Exc("ClientResponseError", "Failed"), Exc("ClientError", "refused")}

TaskRunning == [k |-> "running"]
TaskReturned(r) == [k |-> "returned", r |-> r]
TaskRaised(e) == [k |-> "raised", e |-> e]
TaskCancelled == [k |-> "cancelled"]

FanInit ==
    /\ AgentOff
    /\ ExitOff
    /\ LogOff
    /\ IdOff
    /\ SanOff
    /\ ScopeOff
    /\ SumOff
    /\ heap = <<>>
    /\ fo_test \in FanOutTests
    /\ fo_n \in 1..MaxRequests
    /\ fo_pc = "start"
    /\ fo_task = <<>>
    /\ fo_order = <<>>
    /\ fo_gather = Unset
    /\ fo_results = <<>>
    /\ fo_outcome = Unset
    /\ suiteLog = <<>>

\* list.sort(key=lambda x: x[0]) is stable: x goes behind the elements of the
\* sorted part whose id is not larger
InsertById(sorted, x) ==
    LET k == Cardinality({j \in DOMAIN sorted : sorted[j].id <= x.id})
    IN  SubSeq(sorted, 1, k) \o <<x>> \o SubSeq(sorted, k + 1, Len(sorted))

RECURSIVE SortFrom(_, _, _)
SortFrom(s, i, sorted) ==
    IF i > Len(s) THEN sorted
    ELSE SortFrom(s, i + 1, InsertById(sorted, s[i]))

\* a sort that leaves the list in descending order of request id
SortByRequestIdDescending(s) ==
    LET up == SortFrom(s, 1, <<>>)
    IN  [j \in 1..Len(up) |-> up[Len(up) + 1 - j]]

\* results.sort(key=lambda x: x[0])
SortByRequestId(s) == SortFrom(s, 1, <<>>)

\* what await asyncio.gather(...) evaluates to when no awaitable raised: the
\* results in the order of the awaitables, whatever the order of completion
GatherList == [i \in 1..fo_n |-> fo_task[i].r]

\* success_rate >= 0.8, for success_rate = successful / total
MeetsThreshold(successful, total) == successful * 5 >= total * 4

\* the value the test returns after reporting from results
Verdict(test, res) ==
    IF test = "concurrent_parse_pdf" THEN None
    ELSE PyBool(MeetsThreshold(
             Cardinality({j \in DOMAIN res : res[j].output = "full"}), Len(res)))

SuiteStart(test) == [ev |-> "start", test |-> test]
SuiteEnd(test, success) == [ev |-> "end", test |-> test, success |-> success]

\* the test up to the await of gather: log_test_start, then asyncio.run
\* starts run_concurrent_requests, and gather makes a task of each coroutine
Launch ==
    /\ fo_pc = "start"
    /\ fo_task' = [i \in 1..fo_n |-> TaskRunning]
    /\ suiteLog' = IF LogsSuite(fo_test)
                   THEN Append(suiteLog, SuiteStart(fo_test)) ELSE suiteLog
    /\ fo_pc' = "gather"
    /\ UNCHANGED <<moreVars, heap, sanVars, scopeVars, sumVars, fo_test, fo_n, fo_order,
                   fo_gather, fo_results, fo_outcome>>

\* the single_request of input pos returns its tuple
RequestReturns(pos, output) ==
    /\ fo_pc = "gather"
    /\ fo_task[pos] = TaskRunning
    /\ fo_task' = [fo_task EXCEPT ![pos] = TaskReturned(ResultTuple(pos, output))]
    /\ fo_order' = Append(fo_order, pos)
    /\ UNCHANGED <<moreVars, heap, sanVars, scopeVars, sumVars, fo_test, fo_n, fo_pc,
                   fo_gather, fo_results, fo_outcome, suiteLog>>

\* the single_request of input pos raises; gather (return_exceptions is not
\* given) hands the first exception raised to the coroutine that awaits it and
\* leaves the other tasks running
RequestRaises(pos, e) ==
    /\ fo_pc = "gather"
    /\ fo_task[pos] = TaskRunning
    /\ fo_task' = [fo_task EXCEPT ![pos] = TaskRaised(e)]
    /\ fo_order' = Append(fo_order, pos)
    /\ fo_gather' = IF fo_gather = Unset THEN Raise(e) ELSE fo_gather
    /\ UNCHANGED <<moreVars, heap, sanVars, scopeVars, sumVars, fo_test, fo_n, fo_pc,
                   fo_results, fo_outcome, suiteLog>>

\* every task has returned: gather gives the list, asyncio.run returns it,
\* the test sorts it, reports from it, logs the end and returns
GatherReturns ==
    /\ fo_pc = "gather"
    /\ \A i \in 1..fo_n : fo_task[i].k = "returned"
    /\ fo_results' = SortByRequestId(GatherList)
    /\ fo_outcome' = Return(Verdict(fo_test, fo_results'))
    /\ suiteLog' = IF LogsSuite(fo_test)
                   THEN Append(suiteLog, SuiteEnd(fo_test, fo_outcome'.v))
                   ELSE suiteLog
    /\ fo_pc' = "done"
    /\ UNCHANGED <<moreVars, heap, sanVars, scopeVars, sumVars, fo_test, fo_n, fo_task,
                   fo_order, fo_gather>>

\* the await of gather raises in run_concurrent_requests: asyncio.run cancels
\* the tasks that still run before it raises the exception, and the test
\* either handles it (log_test_end, return False) or lets it pass
GatherRaises ==
    /\ fo_pc = "gather"
    /\ fo_gather # Unset
    /\ fo_task' = [i \in 1..fo_n |->
                    IF fo_task[i] = TaskRunning THEN TaskCancelled ELSE fo_task[i]]
    /\ fo_outcome' = IF CatchesFailure(fo_test)
                     THEN Return(PyBool(FALSE)) ELSE fo_gather
    /\ suiteLog' = IF LogsSuite(fo_test)
                   THEN Append(suiteLog, SuiteEnd(fo_test, PyBool(FALSE)))
                   ELSE suiteLog
    /\ fo_pc' = "done"
    /\ UNCHANGED <<moreVars, heap, sanVars, scopeVars, sumVars, fo_test, fo_n, fo_order,
                   fo_gather, fo_results>>

FanNext ==
    \/ Launch
    \/ \E pos \in 1..fo_n, output \in Outputs : RequestReturns(pos, output)
    \/ \E pos \in 1..fo_n, e \in RequestFailures(fo_test) : RequestRaises(pos, e)
    \/ GatherReturns
    \/ GatherRaises

SpecFan == FanInit /\ [][FanNext]_vars

\* C12: when every request of a batch has returned, in whatever order, the
\* reported sequence has one entry per input and its request ids are those of
\* the inputs in input order (strictly increasing).
FanOutOrdered ==
    (fo_pc = "done" /\ \A i \in 1..fo_n : fo_task[i].k = "returned") =>
        /\ Len(fo_results) = fo_n
        /\ \A j \in 1..fo_n : fo_results[j].id = RequestId(j)
        /\ \A j \in 1..(fo_n - 1) : fo_results[j].id < fo_results[j + 1].id

\* a batch of two or more inputs reported after they completed in another
\* order than the input order
FanOutOrderedWitness ==
    /\ fo_pc = "done"
    /\ fo_n >= 2
    /\ \A i \in 1..fo_n : fo_task[i].k = "returned"
    /\ fo_order[1] # 1
    /\ Len(fo_results) = fo_n

\* the batch result has an entry for the input at pos
Reported(pos) == \E j \in DOMAIN fo_results : fo_results[j].id = RequestId(pos)

\* C13: when the request of one input has raised, every other input of the
\* batch still has its own entry in the result the batch reports.
FailureIsolated ==
    fo_pc = "done" =>
        \A i \in 1..fo_n :
            fo_task[i].k = "raised" =>
                \A j \in (1..fo_n) \ {i} : fo_task[j].k # "raised" => Reported(j)

\* what does hold: a batch in which a request raised reports no element
FailureDiscardsBatch ==
    (fo_pc = "done" /\ \E i \in 1..fo_n : fo_task[i].k = "raised") =>
        fo_results = <<>>

\* C14: no request of a launched batch is cancelled; each runs until it has
\* itself returned or raised.
NoRequestCancelled ==
    \A i \in DOMAIN fo_task : fo_task[i].k # "cancelled"

\* what does hold: a request is cancelled only in a batch where another
\* request raised
CancelledOnlyAfterFailure ==
    (\E i \in DOMAIN fo_task : fo_task[i].k = "cancelled") =>
        \E j \in DOMAIN fo_task : fo_task[j].k = "raised"

\* C15: a finished batch of N requests has emitted N log records through
\* RequestTracker, one per request.
FanOutTracked ==
    fo_pc = "done" => (emitCalls = fo_n /\ Len(fileLog) = fo_n)

\* what does hold: a batch emits no endpoint record at all
FanOutUntracked ==
    emitCalls = 0 /\ fileLog = <<>> /\ console = <<>>

----------------------------------------------------------------------------
\* TestSummary (main.py): the outcome sequence, the wrappers that run a test
\* function and record its outcome, and the reports read from the sequence.

\* the longest outcome sequence explored
MaxResults == 2

\* a TestResult; its timestamp field, the wall-clock time of construction in
\* the default factory, is not represented
TestResult(name, category, status, duration, details, error_message) ==
    [name |-> name, category |-> category, status |-> status,
     duration |-> duration, details |-> details, error_message |-> error_message]

\* an add_result that puts the new outcome in front
add_result_front(res, name, category, status, duration, details, error_message) ==
    <<TestResult(name, category, status, duration, details, error_message)>> \o res

\* an add_result that records the outcome twice
add_result_twice(res, name, category, status, duration, details, error_message) ==
    res \o <<TestResult(name, category, status, duration, details, error_message),
             TestResult(name, category, status, duration, details, error_message)>>

\* TestSummary.add_result: res is self.results, the value is self.results after
add_result(res, name, category, status, duration, details, error_message) ==
    Append(res, TestResult(name, category, status, duration, details, error_message))

\* TestSummary.add_manual_result
add_manual_result(res, name, category, status, duration, details, error_message) ==
    add_result(res, name, category, status, duration, details, error_message)

\* not result
IsFalsy(v) == v \in {PyBool(FALSE), None, Num(0), EmptyList}

\* result is False
IsFalse(v) == v = PyBool(FALSE)

\* result is True
IsTrue(v) == v = PyBool(TRUE)

\* a handler that catches nothing
CatchesNothing(e) == FALSE

\* isinstance(e, Exception): what "except Exception" catches
IsException(e) == e.kind # "KeyboardInterrupt"

\* isinstance(e, AssertionError)
IsAssertionError(e) == e.kind = "AssertionError"

\* TestSummary.run_test; test_func is how the call of the test function ends,
\* duration the time measured around it.  The value is self.results after
\* and how run_test itself ends.
run_test(res, test_name, category, test_func, duration) ==
    IF test_func.k = "return"
    THEN IF IsFalse(test_func.v)
         THEN [results |-> add_result(res, test_name, category, "FAIL", duration,
                                      "Test function returned False", ""),
               ret |-> Return(PyBool(FALSE))]
         ELSE [results |-> add_result(res, test_name, category, "PASS", duration,
                                      "Test completed successfully", ""),
               ret |-> Return(PyBool(TRUE))]
    ELSE IF IsException(test_func.e)
    THEN [results |-> add_result(res, test_name, category, "FAIL", duration,
                                 "", test_func.e.msg),
          ret |-> Return(PyBool(FALSE))]
    ELSE [results |-> res, ret |-> test_func]

\* TestSummary.run_test_manual
run_test_manual(res, test_name, category, test_func, duration) ==
    IF test_func.k = "return"
    THEN IF IsFalse(test_func.v)
         THEN [results |-> add_result(res, test_name, category, "FAIL", duration,
                                      "Test function returned False", ""),
               ret |-> Return(PyBool(FALSE))]
         ELSE IF IsTrue(test_func.v)
         THEN [results |-> add_result(res, test_name, category, "PASS", duration,
                                      "Test function returned True", ""),
               ret |-> Return(PyBool(TRUE))]
         ELSE [results |-> add_result(res, test_name, category, "PASS", duration,
                                      "Test completed without exceptions", ""),
               ret |-> Return(PyBool(TRUE))]
    ELSE IF IsAssertionError(test_func.e)
    THEN [results |-> add_result(res, test_name, category, "FAIL", duration,
                                 "", "Assertion failed: " \o test_func.e.msg),
          ret |-> Return(PyBool(FALSE))]
    ELSE IF IsException(test_func.e)
    THEN [results |-> add_result(res, test_name, category, "FAIL", duration,
                                 "", test_func.e.msg),
          ret |-> Return(PyBool(FALSE))]
    ELSE [results |-> res, ret |-> test_func]

\* a dict given as server info, by its keys
Info(keys) == [t |-> "dict", keys |-> keys]

\* TestSummary.set_server_status: info is None or a dict, and the keys of
\* "info or {}" are stored
set_server_status(status, info) ==
    [server_status |-> status,
     server_info |-> IF info.t = "none" THEN <<>> ELSE info.keys]

\* a filter that lets every outcome through, whatever its category
AnyCategory(rs, category) == rs

\* [r for r in rs if r.category == category]
InCategory(rs, category) ==
    LET Test(r) == r.category = category IN SelectSeq(rs, Test)

\* [r for r in rs if r.status == status]
WithStatus(rs, status) ==
    LET Test(r) == r.status = status IN SelectSeq(rs, Test)

\* sum(r.duration for r in rs)
RECURSIVE SumDuration(_)
SumDuration(rs) ==
    IF rs = <<>> THEN 0 ELSE Head(rs).duration + SumDuration(Tail(rs))

\* a / b of two numbers, kept as the fraction
Quotient(a, b) == [num |-> a, den |-> b]

\* TestSummary.get_category_summary
get_category_summary(res, category) ==
    LET category_results == InCategory(res, category)
    IN  IF category_results = <<>>
        THEN [total |-> 0, passed |-> 0, failed |-> 0, skipped |-> 0, warnings |-> 0]
        ELSE [total |-> Len(category_results),
              passed |-> Len(WithStatus(category_results, "PASS")),
              failed |-> Len(WithStatus(category_results, "FAIL")),
              skipped |-> Len(WithStatus(category_results, "SKIP")),
              warnings |-> Len(WithStatus(category_results, "WARNING")),
              avg_duration |-> Quotient(SumDuration(category_results),
                                        Len(category_results)),
              total_duration |-> SumDuration(category_results)]

\* TestSummary.print_quick_summary: the numbers of the line it prints
print_quick_summary(res) ==
    [total_tests |-> Len(res),
     passed |-> Len(WithStatus(res, "PASS")),
     failed |-> Len(WithStatus(res, "FAIL"))]

\* thresholds of get_recommendations: seconds, and pass rates in percent
SlowSeconds == 30
LowRate == 50
ModerateRate == 80

\* an "excellent" tier that begins where the "moderate" tier ends
ExcellentFromModerate == ModerateRate

ExcellentRate == 95

\* one recommendation
Rec(m) == [m |-> m]

\* {r.category for r in rs}
Categories(rs) == {rs[i].category : i \in DOMAIN rs}

\* TestSummary.get_recommendations: the list it returns.  success_rate is
\* passed / total_tests * 100 (0 for no tests); rate < t is compared as
\* passed * 100 < t * total_tests
get_recommendations(res, status, info) ==
    LET server ==
            IF status = PyBool(FALSE) THEN <<Rec("server not responding")>>
            ELSE IF info = <<>> THEN <<Rec("server status unclear")>>
            ELSE <<>>
        LongRun(r) == r.duration > SlowSeconds
        slow_tests == SelectSeq(res, LongRun)
        slow == IF res # <<>> /\ slow_tests # <<>>
                THEN <<[m |-> "running slowly", n |-> Len(slow_tests)]>>
                ELSE <<>>
        failed_tests == WithStatus(res, "FAIL")
        failing == Categories(failed_tests)
        engine == IF "Engine Tests" \in failing
                  THEN <<Rec("engine test failures")>> ELSE <<>>
        document == IF "Document Processing" \in failing
                    THEN <<Rec("document processing issues")>> ELSE <<>>
        agent == IF "Agent System" \in failing
                 THEN <<Rec("agent system failures")>> ELSE <<>>
        total_tests == Len(res)
        passed == Len(WithStatus(res, "PASS"))
        Below(t) == IF total_tests > 0 THEN passed * 100 < t * total_tests
                    ELSE 0 < t
        rate == IF Below(LowRate) THEN <<Rec("low success rate")>>
                ELSE IF Below(ModerateRate) THEN <<Rec("moderate success rate")>>
                ELSE IF ~Below(ExcellentRate) THEN <<Rec("excellent success rate")>>
                ELSE <<>>
    IN  server \o slow \o engine \o document \o agent \o rate

\* how many tests the slowest-tests list shows
SlowestCount == 5

\* sorted(rs, key=lambda x: x.duration, reverse=True): stable, so x goes
\* behind the elements whose duration is not smaller
InsertByDuration(sorted, x) ==
    LET k == Cardinality({j \in DOMAIN sorted : sorted[j].duration >= x.duration})
    IN  SubSeq(sorted, 1, k) \o <<x>> \o SubSeq(sorted, k + 1, Len(sorted))

RECURSIVE SlowestFirst(_, _, _)
SlowestFirst(rs, i, sorted) ==
    IF i > Len(rs) THEN sorted
    ELSE SlowestFirst(rs, i + 1, InsertByDuration(sorted, rs[i]))

\* TestSummary.print_detailed_summary: what the report shows; elapsed is
\* time.time() - self.start_time, read when the report is made
print_detailed_summary(res, status, info, elapsed) ==
    LET total_tests == Len(res)
        failed == Len(WithStatus(res, "FAIL"))
        slowest == SlowestFirst(res, 1, <<>>)
    IN  [total_duration |-> elapsed,
         server |-> IF status = PyBool(TRUE) THEN "responding"
                    ELSE IF status = PyBool(FALSE) THEN "not responding"
                    ELSE "unknown",
         server_info |-> IF status = PyBool(TRUE) THEN info ELSE <<>>,
         total_tests |-> total_tests,
         passed |-> Len(WithStatus(res, "PASS")),
         failed |-> failed,
         skipped |-> Len(WithStatus(res, "SKIP")),
         warnings |-> Len(WithStatus(res, "WARNING")),
         breakdown |-> [c \in Categories(res) |->
                           [summary |-> get_category_summary(res, c),
                            tests |-> InCategory(res, c)]],
         failed_tests |-> WithStatus(res, "FAIL"),
         slowest |-> IF Len(slowest) > SlowestCount
                     THEN SubSeq(slowest, 1, SlowestCount) ELSE slowest,
         final |-> IF failed = 0 /\ total_tests > 0 THEN "all passed"
                   ELSE IF failed > 0 THEN "failed"
                   ELSE "no tests",
         recommendations |-> get_recommendations(res, status, info)]

\* the tests of the run loop: name, category and the time running one takes
TestRuns ==
    {[name |-> "Basic Completion", category |-> "Engine Tests", duration |-> 1],
     [name |-> "Parse PDF", category |-> "Document Processing", duration |-> 31]}

\* the categories asked about; no test of the last one is run
AskedCategories == {"Engine Tests", "Document Processing", "Agent System"}

\* values a test function returns
ReturnValues == {PyBool(TRUE), PyBool(FALSE), None, Num(42), Num(0), EmptyList}

\* exceptions a test function raises: a failed assert (with or without a
\* message), another Exception, and a BaseException that is no Exception
TestExceptions ==
    {Exc("AssertionError", m) : m \in Messages}
        \cup {Exc("Exception", m) : m \in Messages}
        \cup {Exc("KeyboardInterrupt", "")}

\* the ways the call of a test function ends
TestFuncs == {Return(v) : v \in ReturnValues} \cup {Raise(e) : e \in TestExceptions}

\* status, details and error_message given to add_manual_result / add_result
ManualOutcomes ==
    {[status |-> "WARNING", error_message |-> "",
      details |-> "Streaming failed but non-streaming works"],
     [status |-> "FAIL", error_message |-> "",
      details |-> "Both streaming and non-streaming failed"],
     [status |-> "SKIP", error_message |-> "", details |-> ""]}

\* what check_server_status passes to set_server_status
ServerChoices ==
    {[status |-> PyBool(TRUE), info |-> Info(<<"responding_endpoint">>)],
     [status |-> PyBool(TRUE), info |-> Info(<<>>)],
     [status |-> PyBool(FALSE), info |-> None]}

SumInit ==
    /\ AgentOff
    /\ ExitOff
    /\ LogOff
    /\ IdOff
    /\ SanOff
    /\ ScopeOff
    /\ FanOff
    /\ heap = <<>>
    /\ results = <<>>
    /\ server_status = None
    /\ server_info = <<>>
    /\ call = Unset
    /\ ret = Unset

\* check_server_status, called once before the first test
SetServerStatus(c) ==
    /\ call = Unset
    /\ LET s == set_server_status(c.status, c.info)
       IN  /\ server_status' = s.server_status
           /\ server_info' = s.server_info
    /\ call' = [k |-> "set_server_status"]
    /\ ret' = Return(None)
    /\ UNCHANGED <<moreVars, heap, sanVars, scopeVars, fanVars, results>>

AddResult(t, o) ==
    /\ Len(results) < MaxResults
    /\ results' = add_result(results, t.name, t.category, o.status, t.duration,
                             o.details, o.error_message)
    /\ call' = [k |-> "add_result", test_name |-> t.name, category |-> t.category,
                status |-> o.status]
    /\ ret' = Return(None)
    /\ UNCHANGED <<moreVars, heap, sanVars, scopeVars, fanVars, server_status, server_info>>

\* the run loop's calls give the duration 0.0
AddManualResult(t, o) ==
    /\ Len(results) < MaxResults
    /\ results' = add_manual_result(results, t.name, t.category, o.status, 0,
                                    o.details, o.error_message)
    /\ call' = [k |-> "add_manual_result", test_name |-> t.name,
                category |-> t.category, status |-> o.status]
    /\ ret' = Return(None)
    /\ UNCHANGED <<moreVars, heap, sanVars, scopeVars, fanVars, server_status, server_info>>

RunTest(t, f) ==
    /\ Len(results) < MaxResults
    /\ LET r == run_test(results, t.name, t.category, f, t.duration)
       IN  /\ results' = r.results
           /\ ret' = r.ret
    /\ call' = [k |-> "run_test", test_name |-> t.name, category |-> t.category,
                test_func |-> f]
    /\ UNCHANGED <<moreVars, heap, sanVars, scopeVars, fanVars, server_status, server_info>>

RunTestManual(t, f) ==
    /\ Len(results) < MaxResults
    /\ LET r == run_test_manual(results, t.name, t.category, f, t.duration)
       IN  /\ results' = r.results
           /\ ret' = r.ret
    /\ call' = [k |-> "run_test_manual", test_name |-> t.name,
                category |-> t.category, test_func |-> f]
    /\ UNCHANGED <<moreVars, heap, sanVars, scopeVars, fanVars, server_status, server_info>>

GetCategorySummary(c) ==
    /\ call' = [k |-> "get_category_summary", category |-> c]
    /\ ret' = Return(get_category_summary(results, c))
    /\ UNCHANGED <<moreVars, heap, sanVars, scopeVars, fanVars, results, server_status,
                   server_info>>

GetRecommendations ==
    /\ call' = [k |-> "get_recommendations"]
    /\ ret' = Return(get_recommendations(results, server_status, server_info))
    /\ UNCHANGED <<moreVars, heap, sanVars, scopeVars, fanVars, results, server_status,
                   server_info>>

PrintQuickSummary ==
    /\ call' = [k |-> "print_quick_summary"]
    /\ ret' = Return(print_quick_summary(results))
    /\ UNCHANGED <<moreVars, heap, sanVars, scopeVars, fanVars, results, server_status,
                   server_info>>

\* seconds since the TestSummary was made, as the clock can be read
ClockReadings == {10, 20}

\* the earlier call, if it made the same report
Earlier(k) == IF call.k = k THEN call ELSE Unset

\* a report that sorts self.results itself, slowest first
PrintDetailedSummarySorting(elapsed) ==
    /\ Earlier("print_detailed_summary") # Unset => elapsed >= call.elapsed
    /\ call' = [k |-> "print_detailed_summary", elapsed |-> elapsed,
                again |-> Earlier("print_detailed_summary") # Unset]
    /\ ret' = Return(print_detailed_summary(results, server_status, server_info,
                                            elapsed))
    /\ results' = SlowestFirst(results, 1, <<>>)
    /\ UNCHANGED <<moreVars, heap, sanVars, scopeVars, fanVars, server_status, server_info>>

\* the clock does not run backwards between two reports
PrintDetailedSummary(elapsed) ==
    /\ Earlier("print_detailed_summary") # Unset => elapsed >= call.elapsed
    /\ call' = [k |-> "print_detailed_summary", elapsed |-> elapsed,
                again |-> Earlier("print_detailed_summary") # Unset]
    /\ ret' = Return(print_detailed_summary(results, server_status, server_info,
                                            elapsed))
    /\ UNCHANGED <<moreVars, heap, sanVars, scopeVars, fanVars, results, server_status,
                   server_info>>

\* EndpointLogger.log_test_end: the insights of the summary it logs, for a
\* summary with the counts total_tests, passed, failed, skipped, warnings
log_test_end(summary) ==
    IF summary.total_tests > 0
    THEN (IF summary.failed > summary.passed
          THEN <<Rec("more tests failed than passed, significant issues")>>
          ELSE IF summary.failed > 0
          THEN <<[m |-> "tests failed", n |-> summary.failed]>>
          ELSE IF summary.passed = summary.total_tests
          THEN <<Rec("all tests passed")>>
          ELSE <<>>)
         \o (IF summary.skipped > 0
             THEN <<[m |-> "tests skipped", n |-> summary.skipped]>> ELSE <<>>)
         \o (IF summary.warnings > 0
             THEN <<[m |-> "tests had warnings", n |-> summary.warnings]>>
             ELSE <<>>)
    ELSE <<>>

\* the end of the run loop: log_test_end with the counts of results
LogTestEnd ==
    /\ call' = [k |-> "log_test_end"]
    /\ ret' = Return(log_test_end(
                  [total_tests |-> Len(results),
                   passed |-> Len(WithStatus(results, "PASS")),
                   failed |-> Len(WithStatus(results, "FAIL")),
                   skipped |-> Len(WithStatus(results, "SKIP")),
                   warnings |-> Len(WithStatus(results, "WARNING"))]))
    /\ UNCHANGED <<moreVars, heap, sanVars, scopeVars, fanVars, results, server_status,
                   server_info>>

SumNext ==
    \/ \E c \in ServerChoices : SetServerStatus(c)
    \/ \E t \in TestRuns, o \in ManualOutcomes : AddResult(t, o)
    \/ \E t \in TestRuns, o \in ManualOutcomes : AddManualResult(t, o)
    \/ \E t \in TestRuns, f \in TestFuncs : RunTest(t, f)
    \/ \E t \in TestRuns, f \in TestFuncs : RunTestManual(t, f)
    \/ \E c \in AskedCategories : GetCategorySummary(c)
    \/ GetRecommendations
    \/ PrintQuickSummary
    \/ \E elapsed \in ClockReadings : PrintDetailedSummary(elapsed)
    \/ LogTestEnd

SpecSum == SumInit /\ [][SumNext]_vars

IsPrefix(a, b) == Len(a) <= Len(b) /\ SubSeq(b, 1, Len(a)) = a

Wrappers == {"run_test", "run_test_manual"}

\* the outcome recorded last
LastResult == results[Len(results)]

\* C16: every operation leaves the earlier contents of results as an unchanged
\* prefix and adds at most one outcome, at the end, which is the outcome of the
\* operation just executed.
ResultsAppendOnly ==
    [][/\ IsPrefix(results, results')
       /\ Len(results') <= Len(results) + 1
       /\ Len(results') = Len(results) + 1 =>
              /\ results'[Len(results')].name = call'.test_name
              /\ results'[Len(results')].category = call'.category]_vars

\* a report was printed from a sequence of two or more outcomes
ResultsAppendOnlyWitness ==
    /\ Len(results) >= 2
    /\ call.k = "print_detailed_summary"
    /\ results[1] # results[2]

\* C17: after a wrapper ran a test function that returned, the outcome it
\* recorded is FAIL with details "Test function returned False" if the value
\* was False, and PASS for every other value.
ReturnedValueClassified ==
    (call.k \in Wrappers /\ call.test_func.k = "return") =>
        /\ results # <<>>
        /\ LastResult.name = call.test_name
        /\ call.test_func.v = PyBool(FALSE) =>
               /\ LastResult.status = "FAIL"
               /\ LastResult.details = "Test function returned False"
        /\ call.test_func.v # PyBool(FALSE) => LastResult.status = "PASS"

\* both wrappers recorded PASS for a returned 0
ReturnedValueClassifiedWitness ==
    /\ Len(results) = 2
    /\ call.k = "run_test_manual"
    /\ call.test_func = Return(Num(0))
    /\ results[1].status = "PASS"
    /\ results[1].details = "Test completed successfully"
    /\ results[2].status = "PASS"

StartsWith(s, prefix) ==
    Len(s) >= Len(prefix) /\ SubSeq(s, 1, Len(prefix)) = prefix

\* C18: after a wrapper, run_test or run_test_manual, ran a test function
\* that raised an assertion error, the recorded outcome is FAIL and its
\* error_message starts with "Assertion failed".
AssertionFailurePrefixed ==
    (/\ call.k \in Wrappers
     /\ call.test_func.k = "raise"
     /\ call.test_func.e.kind = "AssertionError") =>
        /\ results # <<>>
        /\ LastResult.status = "FAIL"
        /\ StartsWith(LastResult.error_message, "Assertion failed")

\* what does hold: run_test_manual prefixes the message
ManualAssertionFailurePrefixed ==
    (/\ call.k = "run_test_manual"
     /\ call.test_func.k = "raise"
     /\ call.test_func.e.kind = "AssertionError") =>
        /\ results # <<>>
        /\ LastResult.status = "FAIL"
        /\ LastResult.error_message = "Assertion failed: " \o call.test_func.e.msg

\* C19 as stated: after a wrapper ran a test function that raised anything
\* but an assertion error, the recorded outcome is FAIL with the exception's
\* text and the wrapper returned False.
EveryExceptionContained ==
    (/\ call.k \in Wrappers
     /\ call.test_func.k = "raise"
     /\ call.test_func.e.kind # "AssertionError") =>
        /\ results # <<>>
        /\ LastResult.name = call.test_name
        /\ LastResult.status = "FAIL"
        /\ LastResult.error_message = call.test_func.e.msg
        /\ ret = Return(PyBool(FALSE))

\* C19: after a wrapper ran a test function that raised an Exception that is
\* no assertion error, the recorded outcome is FAIL with the exception's text
\* and the wrapper returned False; an exception that is no Exception leaves
\* the wrapper as it was raised.
ExceptionContained ==
    (call.k \in Wrappers /\ call.test_func.k = "raise") =>
        /\ call.test_func.e.kind = "Exception" =>
               /\ results # <<>>
               /\ LastResult.name = call.test_name
               /\ LastResult.status = "FAIL"
               /\ LastResult.error_message = call.test_func.e.msg
               /\ ret = Return(PyBool(FALSE))
        /\ call.test_func.e.kind = "KeyboardInterrupt" => ret = call.test_func

\* a test raised an Exception, was recorded as FAIL, and the next test ran
ExceptionContainedWitness ==
    /\ Len(results) = 2
    /\ results[1].status = "FAIL"
    /\ results[1].error_message = "refused"
    /\ call.k = "run_test"
    /\ call.test_func = Raise(Exc("Exception", "refused"))
    /\ ret = Return(PyBool(FALSE))

\* C20: every FAIL outcome in results has a non-empty error_message.
FailHasMessage ==
    \A i \in DOMAIN results :
        results[i].status = "FAIL" => results[i].error_message # ""

\* what does hold: a FAIL outcome has no error_message only if the test
\* function returned False, the exception had no text, or the caller of
\* add_manual_result / add_result gave none
FailWithoutMessageOrigin ==
    \A i \in DOMAIN results :
        (results[i].status = "FAIL" /\ results[i].error_message = "") =>
            \/ results[i].details = "Test function returned False"
            \/ results[i].details = "Both streaming and non-streaming failed"
            \/ results[i].details = ""

\* positions of the outcomes of category c
OfCategory(c) == {i \in DOMAIN results : results[i].category = c}

\* how many of the outcomes at the positions idx have the status
CountOf(idx, status) == Cardinality({i \in idx : results[i].status = status})

\* sum of the durations of the outcomes at the positions idx
RECURSIVE DurationOf(_)
DurationOf(idx) ==
    IF idx = {} THEN 0
    ELSE LET i == CHOOSE j \in idx : TRUE
         IN  results[i].duration + DurationOf(idx \ {i})

\* the counts of a summary are those of the outcomes at the positions idx
CountsMatch(summary, idx) ==
    /\ summary.total = Cardinality(idx)
    /\ summary.passed = CountOf(idx, "PASS")
    /\ summary.failed = CountOf(idx, "FAIL")
    /\ summary.skipped = CountOf(idx, "SKIP")
    /\ summary.warnings = CountOf(idx, "WARNING")

\* C21 as stated: for every category the summary returned has the counts of
\* the outcomes of that category, their summed duration as total_duration and
\* total_duration / total as avg_duration.
CategorySummaryComplete ==
    call.k = "get_category_summary" =>
        LET idx == OfCategory(call.category)
        IN  /\ CountsMatch(ret.v, idx)
            /\ {"total_duration", "avg_duration"} \subseteq DOMAIN ret.v
            /\ ret.v.total_duration = DurationOf(idx)

\* C21: for a category with at least one outcome the summary has the counts
\* of the outcomes of that category, their summed duration as total_duration
\* and total_duration / total as avg_duration; for a category without outcome
\* it has the five counts, all 0, and no duration entries.
CategorySummaryCorrect ==
    call.k = "get_category_summary" =>
        LET idx == OfCategory(call.category)
        IN  /\ CountsMatch(ret.v, idx)
            /\ idx # {} =>
                   /\ ret.v.total_duration = DurationOf(idx)
                   /\ ret.v.avg_duration.num = DurationOf(idx)
                   /\ ret.v.avg_duration.den = Cardinality(idx)
            /\ idx = {} =>
                   DOMAIN ret.v = {"total", "passed", "failed", "skipped", "warnings"}

\* a summary was asked of a category that has one of two outcomes
CategorySummaryCorrectWitness ==
    /\ call.k = "get_category_summary"
    /\ Len(results) = 2
    /\ Cardinality(OfCategory(call.category)) = 1
    /\ ret.v.total = 1

----------------------------------------------------------------------------
\* Reports read from a TestSummary that already holds outcomes: the run loop
\* has recorded up to MaxOutcomes outcomes before the reports are asked for.

\* the longest outcome sequence a report is read from
MaxOutcomes == 5

\* the outcomes the sequence is made of
ReportOutcomes ==
    {TestResult("Basic Completion", "Engine Tests", "PASS", 1,
                "Test completed successfully", ""),
     TestResult("Parse PDF", "Document Processing", "FAIL", 31,
                "Test function returned False", "")}

\* the sequences of 0 .. n outcomes
OutcomeSeqs(n) == UNION {[1..k -> ReportOutcomes] : k \in 0..n}

RepInit ==
    /\ AgentOff
    /\ ExitOff
    /\ LogOff
    /\ IdOff
    /\ SanOff
    /\ ScopeOff
    /\ FanOff
    /\ heap = <<>>
    /\ results \in OutcomeSeqs(MaxOutcomes)
    /\ server_status = None
    /\ server_info = <<>>
    /\ call = Unset
    /\ ret = Unset

SpecRep == RepInit /\ [][SumNext]_vars

\* the pass-rate tier messages of a recommendation list
TierMessages == {Rec("low success rate"), Rec("moderate success rate"),
                 Rec("excellent success rate")}
TiersIn(recs) == {i \in DOMAIN recs : recs[i] \in TierMessages}
Passed == Cardinality({i \in DOMAIN results : results[i].status = "PASS"})
Failed == Cardinality({i \in DOMAIN results : results[i].status = "FAIL"})

\* C22 as stated: every list get_recommendations returns holds exactly one
\* pass-rate tier message.
ExactlyOneTier ==
    call.k = "get_recommendations" => Cardinality(TiersIn(ret.v)) = 1

\* C22: a list get_recommendations returns holds at most one pass-rate tier
\* message: the "<50%" one for a pass rate below 50% (no outcome at all counts
\* as 0%), the "<80%" one from 50% to below 80%, the "excellent" one from 95%,
\* and none from 80% to below 95%.
TierByRate ==
    call.k = "get_recommendations" =>
        LET n == Len(results)
            tiers == {ret.v[i] : i \in TiersIn(ret.v)}
        IN  /\ Cardinality(TiersIn(ret.v)) <= 1
            /\ tiers =
                 IF n = 0 \/ Passed * 100 < 50 * n THEN {Rec("low success rate")}
                 ELSE IF Passed * 100 < 80 * n THEN {Rec("moderate success rate")}
                 ELSE IF Passed * 100 >= 95 * n THEN {Rec("excellent success rate")}
                 ELSE {}

\* recommendations were asked for at a pass rate of 80% and hold no tier
TierByRateWitness ==
    /\ call.k = "get_recommendations"
    /\ Len(results) = 5
    /\ Passed = 4
    /\ TiersIn(ret.v) = {}

\* C23: when results holds more FAIL than PASS outcomes, the list
\* get_recommendations returns contains a "significant issues" warning.
SignificantIssuesRecommended ==
    (call.k = "get_recommendations" /\ Failed > Passed) =>
        \E i \in DOMAIN ret.v :
            ret.v[i] = Rec("more tests failed than passed, significant issues")

\* what does hold: with more FAIL than PASS outcomes get_recommendations
\* gives the "<50%" tier message, and the "significant issues" text is among
\* the insights log_test_end logs at the end of the run
MoreFailuresReported ==
    Failed > Passed =>
        /\ call.k = "get_recommendations" =>
               \E i \in DOMAIN ret.v : ret.v[i] = Rec("low success rate")
        /\ call.k = "log_test_end" =>
               ret.v[1] = Rec("more tests failed than passed, significant issues")

\* the operations that report from results
Readers == {"get_category_summary", "get_recommendations", "print_quick_summary",
            "print_detailed_summary"}

\* the step asks again for the report the step before it gave
SameReportAgain ==
    /\ call.k \in Readers
    /\ call'.k = call.k
    /\ call.k = "get_category_summary" => call'.category = call.category

\* a report leaves the TestSummary as it is
ReportLeavesState ==
    call'.k \in Readers => UNCHANGED <<results, server_status, server_info>>

\* C24 as stated: a report leaves results, server_status and server_info
\* unchanged, and the same report asked twice in a row is the same both times.
ReportsIdentical ==
    [][/\ ReportLeavesState
       /\ SameReportAgain => ret' = ret]_vars

\* the detailed report without the elapsed time of the run
Timeless(report) == [report EXCEPT !.total_duration = 0]

\* C24: a report leaves results, server_status and server_info unchanged, and
\* the same report asked twice in a row is the same both times, but for the
\* elapsed time of the run in the detailed report.
ReportsIdenticalButElapsed ==
    [][/\ ReportLeavesState
       /\ SameReportAgain =>
              IF call.k = "print_detailed_summary"
              THEN Timeless(ret'.v) = Timeless(ret.v)
              ELSE ret' = ret]_vars

\* the detailed report was made a second time, later, from outcomes that
\* include a FAIL
ReportsIdenticalButElapsedWitness ==
    /\ call.k = "print_detailed_summary"
    /\ call.again
    /\ call.elapsed = 20
    /\ ret.v.total_duration = 20
    /\ Len(results) = 2
    /\ ret.v.failed_tests # <<>>

\* the step is a call of run_test or run_test_manual that appends one outcome,
\* named and categorised as the call says, PASS or FAIL, and returns True for
\* PASS and False for FAIL
RecordsOneOutcome ==
    /\ Len(results') = Len(results) + 1
    /\ SubSeq(results', 1, Len(results)) = results
    /\ LET new == results'[Len(results')]
       IN  /\ new.name = call'.test_name
           /\ new.category = call'.category
           /\ new.status \in {"PASS", "FAIL"}
           /\ ret' = Return(PyBool(new.status = "PASS"))

\* C28 as stated: every call of a wrapper appends exactly one outcome, named
\* and categorised as the call says, PASS or FAIL, and returns True exactly
\* when it is PASS.
EveryRunRecordsOnce ==
    [][call'.k \in Wrappers => RecordsOneOutcome]_vars

\* C28: a call of a wrapper whose test function returns or raises an
\* Exception appends exactly one outcome, named and categorised as the call
\* says, PASS or FAIL, and returns True exactly when it is PASS; a call whose
\* test function raises something that is no Exception appends nothing and
\* returns nothing.
RunRecordsOnce ==
    [][call'.k \in Wrappers =>
          IF call'.test_func.k = "raise"
             /\ call'.test_func.e.kind = "KeyboardInterrupt"
          THEN results' = results /\ ret' = call'.test_func
          ELSE RecordsOneOutcome]_vars

\* run_test_manual recorded a second outcome, PASS, for a test function that
\* returned nothing
RunRecordsOnceWitness ==
    /\ call.k = "run_test_manual"
    /\ call.test_func = Return(None)
    /\ Len(results) = 2
    /\ results[2].status = "PASS"
    /\ results[2].name = call.test_name
    /\ ret = Return(PyBool(TRUE))

\* C29: after a scope was left by an exception, the error of every record it
\* emitted is the text of that exception.
ExceptionTextLogged ==
    (pc = "done" /\ pending.k = "raise") =>
        \A r \in Emitted : r.error = Text(pending.e.msg)

\* what does hold: the text of the exception is the error of the record if
\* it is not empty, and the record has no error if it is empty; a message
\* given to set_error is in the record only if the body did not raise
ExceptionTextLoggedUnlessEmpty ==
    pc = "done" =>
        \A r \in Emitted :
            /\ (pending.k = "raise" /\ pending.e.msg # "") =>
                   r.error = Text(pending.e.msg)
            /\ (pending.k = "raise" /\ pending.e.msg = "") => r.error = Absent
            /\ (r.error # Absent /\ pending.k = "raise") =>
                   r.error.m \notin {"Request failed: " \o pending.e.msg,
                                     "Unexpected error: " \o pending.e.msg}

\* ---------------------------------------------------------------------------
\* The agent test of the run loop (main.py 748-754) and
\* KolosalAgentTester.run_all_tests

MaxInner == 2

\* the test_results of a new KolosalAgentTester; the list 'errors' has one
\* entry for each test counted as failed and is left out
NewTestResults == [passed |-> 0, failed |-> 0, skipped |-> 0]

\* KolosalAgentTester.log_test, on the counters
log_test(tr, success) ==
    IF success THEN [tr EXCEPT !.passed = @ + 1] ELSE [tr EXCEPT !.failed = @ + 1]

\* KolosalAgentTester.skip_test
skip_test(tr) == [tr EXCEPT !.skipped = @ + 1]

\* how the inner tests that follow the agent management tests end
InnerOutcomes == {"passed", "failed", "skipped"}

InnerRuns == UNION {[1..n -> InnerOutcomes] : n \in 0..MaxInner}

\* the counters after the inner tests of the sequence inner, from position i
RECURSIVE CountInner(_, _, _)
CountInner(tr, inner, i) ==
    IF i > Len(inner) THEN tr
    ELSE CountInner(IF inner[i] = "skipped" THEN skip_test(tr)
                    ELSE log_test(tr, inner[i] = "passed"),
                    inner, i + 1)

\* a run_all_tests that returns whether no inner test failed
run_all_tests_reporting(tr, health, agents, inner, escapes) ==
    LET t1 == log_test(tr, health)
        t2 == log_test(t1, agents)
        t3 == CountInner(t2, inner, 1)
    IN  IF ~health THEN [test_results |-> t1, ret |-> Return(PyBool(FALSE))]
        ELSE IF ~agents THEN [test_results |-> t2, ret |-> Return(PyBool(FALSE))]
        ELSE IF escapes
        THEN [test_results |-> t3, ret |-> Raise(Exc("KeyError", "'id'"))]
        ELSE [test_results |-> t3, ret |-> Return(PyBool(t3.failed = 0))]

\* KolosalAgentTester.run_all_tests: health is what test_server_health
\* returns, agents whether the agent management tests (taken as one counted
\* test) leave an agent to test, inner how the later tests end, escapes
\* whether an exception leaves the try block (the agent list is read
\* outside every handler).  The value is the counters after and how the
\* call ends; no path returns a value.
run_all_tests(tr, health, agents, inner, escapes) ==
    LET t1 == log_test(tr, health)
        t2 == log_test(t1, agents)
        t3 == CountInner(t2, inner, 1)
    IN  IF ~health THEN [test_results |-> t1, ret |-> Return(None)]
        ELSE IF ~agents THEN [test_results |-> t2, ret |-> Return(None)]
        ELSE IF escapes
        THEN [test_results |-> t3, ret |-> Raise(Exc("KeyError", "'id'"))]
        ELSE [test_results |-> t3, ret |-> Return(None)]

\* name, category and running time of the agent test
AgentRun ==
    [name |-> "Agent Features Test", category |-> "Agent System", duration |-> 31]

\* main.py 748-754: a new tester, and run_test_manual around its run_all_tests
RunAgentFeaturesTest(health, agents, inner, escapes) ==
    /\ Len(results) < MaxResults
    /\ LET a == run_all_tests(NewTestResults, health, agents, inner, escapes)
           r == run_test_manual(results, AgentRun.name, AgentRun.category, a.ret,
                                AgentRun.duration)
       IN  /\ test_results' = a.test_results
           /\ results' = r.results
           /\ ret' = r.ret
           /\ call' = [k |-> "run_test_manual", test_name |-> AgentRun.name,
                       category |-> AgentRun.category, test_func |-> a.ret]
    /\ UNCHANGED <<exitVars, logVars, idVars, heap, sanVars, scopeVars, fanVars,
                   server_status, server_info>>

\* the other tests of the run loop leave the tester alone
AgentNext ==
    \/ \E health \in BOOLEAN, agents \in BOOLEAN, inner \in InnerRuns,
          escapes \in BOOLEAN :
            RunAgentFeaturesTest(health, agents, inner, escapes)
    \/ \E t \in TestRuns, f \in TestFuncs : RunTestManual(t, f)
    \/ \E c \in AskedCategories : GetCategorySummary(c)
    \/ PrintQuickSummary

SpecAgent == SumInit /\ [][AgentNext]_vars

\* the agent test was the last operation
AgentTestRan == call.k = "run_test_manual" /\ call.test_name = AgentRun.name

\* C30: when run_all_tests raises no exception, the outcome recorded for
\* "Agent Features Test" is PASS "Test completed without exceptions",
\* whatever the tester counted as failed and also after a failed health
\* check; the record holds nothing of the counters.
AgentTestPassesUnlessRaised ==
    (AgentTestRan /\ call.test_func.k = "return")
        => /\ Len(results) > 0
           /\ LastResult = TestResult(AgentRun.name, AgentRun.category, "PASS",
                                      AgentRun.duration,
                                      "Test completed without exceptions", "")
           /\ ret = Return(PyBool(TRUE))

\* inner tests failed, or the health check did, and PASS is recorded
AgentTestPassesUnlessRaisedWitness ==
    /\ AgentTestRan
    /\ call.test_func.k = "return"
    /\ test_results.failed > 1
    /\ test_results.passed > 0
    /\ LastResult.status = "PASS"

\* the run aborted on the failed health check and PASS is recorded
AgentTestAbortedPasses ==
    /\ AgentTestRan
    /\ test_results = [passed |-> 0, failed |-> 1, skipped |-> 0]
    /\ LastResult.name = AgentRun.name
    /\ LastResult.status = "PASS"

\* ---------------------------------------------------------------------------
\* The exit code of the four entry points that track test outcomes

MaxTracked == 4

\* the scripts run as a process
Scripts == {"main.py", "api_test.py", "run_api_tests.py", "basic_test.py"}

\* the number of tracked outcomes that are passes
RECURSIVE CountPassed(_)
CountPassed(t) ==
    IF t = <<>> THEN 0
    ELSE (IF t[Len(t)] THEN 1 ELSE 0) + CountPassed(SubSeq(t, 1, Len(t) - 1))

\* api_test.py, KolosalServerTester.run_all_tests: overall_success
overall_success(t) == CountPassed(t) = Len(t)

\* api_test.py, main: exit(0 if success else 1)
api_test_main(t) == IF overall_success(t) THEN 0 ELSE 1

\* run_api_tests.py, main: exit(0) if success, else exit(1)
run_api_tests_main(t) == IF overall_success(t) THEN 0 ELSE 1

\* basic_test.py: the value of main, given to sys.exit
basic_test_main(t) == IF CountPassed(t) = Len(t) THEN 0 ELSE 1

\* main.py: the module ends after the report and the finally block, with no
\* call of exit; the interpreter ends with 0
main_py_end(t) == 0

ExitInit ==
    /\ AgentOff
    /\ LogOff
    /\ IdOff
    /\ SanOff
    /\ ScopeOff
    /\ FanOff
    /\ SumOff
    /\ heap = <<>>
    /\ script \in Scripts
    /\ tracked = <<>>
    /\ exit_code = [k |-> "none"]

\* one test of the run ends and its outcome is tracked: an entry of
\* test_summary.results (main.py), of results (the other scripts)
TrackOutcome(passed) ==
    /\ exit_code.k = "none"
    /\ Len(tracked) < MaxTracked
    /\ tracked' = Append(tracked, passed)
    /\ UNCHANGED <<agentVars, logVars, idVars, heap, sanVars, scopeVars, fanVars,
                   sumVars, script, exit_code>>

\* the process ends with the given code, after its last test
ExitWith(code) ==
    /\ exit_code.k = "none"
    /\ Len(tracked) = MaxTracked
    /\ exit_code' = [k |-> "exit", code |-> code]
    /\ UNCHANGED <<agentVars, logVars, idVars, heap, sanVars, scopeVars, fanVars,
                   sumVars, script, tracked>>

MainPyEnd == script = "main.py" /\ ExitWith(main_py_end(tracked))

ApiTestMain == script = "api_test.py" /\ ExitWith(api_test_main(tracked))

RunApiTestsMain ==
    script = "run_api_tests.py" /\ ExitWith(run_api_tests_main(tracked))

BasicTestMain == script = "basic_test.py" /\ ExitWith(basic_test_main(tracked))

ExitNext ==
    \/ \E passed \in BOOLEAN : TrackOutcome(passed)
    \/ MainPyEnd
    \/ ApiTestMain
    \/ RunApiTestsMain
    \/ BasicTestMain

SpecExit == ExitInit /\ [][ExitNext]_vars

\* every tracked test of the run passed
AllTrackedPassed == \A i \in 1..Len(tracked) : tracked[i]

\* C25: every entry point that tracks outcomes exits with 0 if every tracked
\* test of the run passed and with 1 if at least one failed.
ExitCodeTellsOutcome ==
    exit_code.k = "exit" => exit_code.code = IF AllTrackedPassed THEN 0 ELSE 1

\* the three scripts other than main.py exit with 0 exactly when every
\* tracked test passed, and main.py exits with 0 always
ExitCodeTellsOutcomeButMain ==
    exit_code.k = "exit"
        => exit_code.code = IF script = "main.py" \/ AllTrackedPassed THEN 0 ELSE 1

\* a standalone script ended with 1 after a failed test
ExitCodeTellsOutcomeButMainWitness ==
    /\ exit_code = [k |-> "exit", code |-> 1]
    /\ script = "basic_test.py"
    /\ ~AllTrackedPassed

\* ---------------------------------------------------------------------------
\* extract_id_from_response (logging_utils.py 23-72)

\* the keys a dict of the responses has, at the root and inside "data"
IdKeys == {"agent", "agent_id", "id"}
RootKeys == IdKeys \cup {"data"}

\* what a key holds, Absent when the dict has no such key: two ids, the
\* empty string, a number
IdLeaves == {Str("A"), Str("B"), Str(""), Num(7), Absent}

\* a dict with the given keys, as the function from key to what it holds
JsonDict(f) == [t |-> "dict", f |-> f]

\* what the key "data" holds: a dict, null, a string, a list, or nothing
DataValues ==
    {JsonDict(f) : f \in [IdKeys -> IdLeaves]}
        \cup {None, Str("A"), EmptyList, Absent}

\* the parsed responses: dicts, and values that are no dict
ResponseDatas ==
    {JsonDict([k \in RootKeys |-> IF k = "data" THEN d ELSE l[k]]) :
        d \in DataValues, l \in [IdKeys -> IdLeaves]}
        \cup {None, Str("A"), EmptyList}

IdFieldNames == {"agent", "id"}

\* d.get(key, default) on a dict d
DictGet(d, key, default) ==
    IF key \in DOMAIN d.f /\ d.f[key] # Absent THEN d.f[key] ELSE default

\* value and isinstance(value, str)
IsNonEmptyStr(v) == v.t = "str" /\ v.s # ""

\* possible_locations, in the order of the list in the code
possible_locations(name) ==
    <<[container |-> "data", field |-> name \o "_id"],
      [container |-> "data", field |-> name],
      [container |-> "data", field |-> "id"],
      [container |-> "", field |-> name \o "_id"],
      [container |-> "", field |-> name],
      [container |-> "", field |-> "id"]>>

\* the locations in the order the docstring lists them
documented_locations(name) ==
    <<[container |-> "data", field |-> name],
      [container |-> "data", field |-> name \o "_id"],
      [container |-> "", field |-> name],
      [container |-> "", field |-> name \o "_id"],
      [container |-> "data", field |-> "id"],
      [container |-> "", field |-> "id"]>>

\* the for loop from position i of the locations
RECURSIVE ExamineLocations(_, _, _)
ExamineLocations(d, locs, i) ==
    IF i > Len(locs) THEN Return(None)
    ELSE LET loc == locs[i]
             inner == DictGet(d, loc.container, JsonDict(<<>>))
         IN  IF loc.container # "" /\ inner.t # "dict"
             THEN Raise(Exc("AttributeError", "object has no attribute 'get'"))
             ELSE LET value == IF loc.container # ""
                               THEN DictGet(inner, loc.field, None)
                               ELSE DictGet(d, loc.field, None)
                  IN  IF IsNonEmptyStr(value) THEN Return(value)
                      ELSE ExamineLocations(d, locs, i + 1)

extract_id_from_response(data_, name) ==
    IF data_.t # "dict" THEN Return(None)
    ELSE ExamineLocations(data_, possible_locations(name), 1)

IdInit ==
    /\ AgentOff
    /\ ExitOff
    /\ LogOff
    /\ SanOff
    /\ ScopeOff
    /\ FanOff
    /\ SumOff
    /\ heap = <<>>
    /\ id_response \in ResponseDatas
    /\ id_field_name \in IdFieldNames
    /\ extracted = [k |-> "none"]

ExtractId ==
    /\ extracted.k = "none"
    /\ extracted' = extract_id_from_response(id_response, id_field_name)
    /\ UNCHANGED <<agentVars, exitVars, logVars, heap, sanVars, scopeVars, fanVars,
                   sumVars, id_response, id_field_name>>

IdNext == ExtractId

SpecId == IdInit /\ [][IdNext]_vars

\* what a location of a dict holds, None when there is nothing to read
AtLocation(d, loc) ==
    IF loc.container = "" THEN DictGet(d, loc.field, None)
    ELSE LET inner == DictGet(d, loc.container, None)
         IN  IF inner.t = "dict" THEN DictGet(inner, loc.field, None) ELSE None

\* the first non-empty string at the locations locs of d, from position i
RECURSIVE FirstId(_, _, _)
FirstId(d, locs, i) ==
    IF i > Len(locs) THEN None
    ELSE IF IsNonEmptyStr(AtLocation(d, locs[i])) THEN AtLocation(d, locs[i])
    ELSE FirstId(d, locs, i + 1)

\* C27: extract_id_from_response returns the first non-empty string in the
\* order of its documentation, None when there is none or the input is no
\* map, and never raises for a map.
ExtractsInDocumentedOrder ==
    extracted.k # "none"
        => extracted =
             Return(IF id_response.t = "dict"
                    THEN FirstId(id_response, documented_locations(id_field_name), 1)
                    ELSE None)

\* the call never raises
ExtractNeverRaises == extracted.k # "raise"

\* it does when "data" holds a value that is no dict
ExtractRaisesOnDataNotDict ==
    /\ extracted.k = "raise"
    /\ id_response.t = "dict"
    /\ id_response.f["data"] \in {None, Str("A"), EmptyList}

\* when "data" is absent or a dict, the call returns the first non-empty
\* string in the order of the list in the code, and None when there is none
ExtractsInCodeOrder ==
    (extracted.k # "none" /\ id_response.t = "dict"
        /\ id_response.f["data"].t \in {"dict", "absent"})
        => /\ extracted.k = "return"
           /\ extracted.v \in
                {None} \cup {AtLocation(id_response, documented_locations(id_field_name)[i]) :
                                i \in 1..6}
           /\ (extracted.v = None
                 <=> FirstId(id_response, documented_locations(id_field_name), 1) = None)
           /\ extracted.v # None => IsNonEmptyStr(extracted.v)

\* the code and the documentation disagree: data.agent_id is returned, not
\* data.agent
ExtractOrderDiffers ==
    /\ extracted.k = "return"
    /\ id_response.t = "dict"
    /\ id_response.f["data"].t = "dict"
    /\ extracted.v # FirstId(id_response, documented_locations(id_field_name), 1)

\* ---------------------------------------------------------------------------
\* The two log files across successive runs of main.py

MaxRuns == 3
MaxWrites == 2

\* a mode that empties the file when it is opened
TruncatingMode == "w"

\* the mode EndpointLogger.setup_logging opens logs/endpoint_tests.log with
EndpointLogMode == "a"

\* the mode TestLogger.setup_file_logging opens tests.log with
TranscriptMode == "w"

\* logging.FileHandler(file, mode): the content of the file once it is open
FileHandler(content, file_mode) == IF file_mode = "w" THEN <<>> ELSE content

\* the records of a file that the process number k wrote
WrittenBy(content, k) ==
    LET Test(rec) == rec.run = k IN SelectSeq(content, Test)

LogInit ==
    /\ AgentOff
    /\ ExitOff
    /\ IdOff
    /\ SanOff
    /\ ScopeOff
    /\ FanOff
    /\ SumOff
    /\ heap = <<>>
    /\ run = 0
    /\ proc = "idle"
    /\ endpoint_log = <<>>
    /\ transcript = <<>>

\* python main.py: importing logging_utils makes endpoint_logger, then
\* test_logger = TestLogger() (main.py 30, 126); each opens its file once
StartProcess ==
    /\ proc = "idle"
    /\ run < MaxRuns
    /\ run' = run + 1
    /\ proc' = "running"
    /\ endpoint_log' = FileHandler(endpoint_log, EndpointLogMode)
    /\ transcript' = FileHandler(transcript, TranscriptMode)
    /\ UNCHANGED <<agentVars, exitVars, idVars, heap, sanVars, scopeVars, fanVars,
                   sumVars>>

\* endpoint_logger writes one record to its file; its console handler
\* writes to stderr, which is not captured
LogEndpointTest ==
    /\ proc = "running"
    /\ Len(WrittenBy(endpoint_log, run)) < MaxWrites
    /\ endpoint_log' = Append(endpoint_log,
                              [run |-> run, n |-> Len(WrittenBy(endpoint_log, run)) + 1])
    /\ UNCHANGED <<agentVars, exitVars, idVars, heap, sanVars, scopeVars, fanVars,
                   sumVars, run, proc, transcript>>

\* a print of a line that is not blank: StdoutCapture.write logs it to the
\* transcript
PrintAndLog ==
    /\ proc = "running"
    /\ Len(transcript) < MaxWrites
    /\ transcript' = Append(transcript, [run |-> run, n |-> Len(transcript) + 1])
    /\ UNCHANGED <<agentVars, exitVars, idVars, heap, sanVars, scopeVars, fanVars,
                   sumVars, run, proc, endpoint_log>>

\* the process ends; the files stay
EndProcess ==
    /\ proc = "running"
    /\ proc' = "idle"
    /\ UNCHANGED <<agentVars, exitVars, idVars, heap, sanVars, scopeVars, fanVars,
                   sumVars, run, endpoint_log, transcript>>

LogNext ==
    \/ StartProcess
    \/ LogEndpointTest
    \/ PrintAndLog
    \/ EndProcess

SpecLog == LogInit /\ [][LogNext]_vars

\* the records of a file are those of the runs in turn, each run's records
\* in the order they were written
InRunOrder(content) ==
    \A i \in 1..Len(content) :
        /\ content[i].run \in 1..run
        /\ i > 1 => \/ content[i - 1].run < content[i].run
                    \/ /\ content[i - 1].run = content[i].run
                       /\ content[i].n = content[i - 1].n + 1

\* C26: the endpoint log is never truncated: each step, the start of a new
\* run included, keeps what the file held as an unchanged prefix, and the
\* file holds the records of runs 1..k in turn; the transcript is emptied
\* when a run starts and only then, so it holds output of run k only.
LogFilesAsymmetricStep ==
    /\ IsPrefix(endpoint_log, endpoint_log')
    /\ InRunOrder(endpoint_log')
    /\ run' # run => transcript' = <<>>
    /\ run' = run => IsPrefix(transcript, transcript')
    /\ \A i \in 1..Len(transcript') : transcript'[i] = [run |-> run', n |-> i]

LogFilesAsymmetric == [][LogFilesAsymmetricStep]_vars

\* the third run has written to both files, and the endpoint log still
\* holds the records of the two runs before it
LogFilesAsymmetricWitness ==
    /\ run = 3
    /\ Len(WrittenBy(endpoint_log, 1)) = MaxWrites
    /\ Len(WrittenBy(endpoint_log, 2)) > 0
    /\ Len(WrittenBy(endpoint_log, 3)) > 0
    /\ Len(transcript) = MaxWrites

============================================================================
